---- MODULE Spec2Model ----
(***************************************************************************)
(* Stokvela: the contribution / penalty rule engine.                       *)
(*                                                                         *)
(* Dates are day numbers 0..MaxDay.  A nullable column that is unset holds *)
(* NULL.  Money is a whole number of currency units.  A rule's id is its   *)
(* position in its table (rows are never deleted).                         *)
(***************************************************************************)
EXTENDS Integers, Sequences, FiniteSets, TLC

\* ---------------------------------------------------------------- bounds
MaxDay == 2
MaxRules == 2
MaxPeriods == 1
MaxStore == 1
MaxAsOf == 1
MaxAmount == 3
MaxBase == 3
MaxGrace == 1
MaxLate == 3

NULL == -1

Days == 0..MaxDay
Stokvels == {"s1", "s2"}
ContributionTypes == {"regular", "special"}
PenaltyTypes == {"late_payment", "insufficient_payment"}
AmountInputs == {-1, 0, 5}
Requests == {"r1", "r2"}
Methods == {"fixed", "percentage", "daily", "tiered"}

VARIABLES
    today,          \* timezone.now().date()
    contribRules,   \* table ContributionRule
    penaltyRules,   \* table PenaltyRule
    periods,        \* table PaymentPeriod
    ret,            \* what the last call returned or raised
    txn,            \* the open create_contribution_rule transaction of each request
    calc,           \* a call of PenaltyRule.calculate_penalty: its inputs and result
    util,           \* a call of a DateUtils / ContributionCalculator function or
                    \* of a PaymentPeriod property: its inputs and result
    contribs,       \* table Contribution
    penalties,      \* table Penalty
    accounts,       \* table StokvelBankAccount
    cycles          \* table StokvelCycle

vars == <<today, contribRules, penaltyRules, periods, ret, txn, calc, util,
          contribs, penalties, accounts, cycles>>

Raised(op, exc) == [op |-> op, raised |-> exc]

\* ------------------------------------------------------------ ContributionRule
ContributionRule(stokvel, contribution_type, amount, effective_from, effective_until, is_active) ==
    [stokvel |-> stokvel, contribution_type |-> contribution_type, amount |-> amount,
     effective_from |-> effective_from, effective_until |-> effective_until,
     is_active |-> is_active]

\* The queryset of create_contribution_rule for a candidate whose
\* effective_until is set: is_active, effective_from__lte = effective_until,
\* effective_until__gte = effective_from.  A row whose effective_until is NULL
\* fails the __gte comparison (SQL NULL), so it is never in the queryset.
overlapping_rules(rows, stokvel, contribution_type, effective_from, effective_until) ==
    { i \in DOMAIN rows :
        /\ rows[i].stokvel = stokvel
        /\ rows[i].contribution_type = contribution_type
        /\ rows[i].is_active
        /\ rows[i].effective_from <= effective_until
        /\ rows[i].effective_until # NULL
        /\ rows[i].effective_until >= effective_from }

\* The part of create_contribution_rule before the insert: the exception it
\* raises, or "none".  With effective_until unset the filter is built with
\* effective_until__gte=None, which the ORM refuses with
\* ValueError("Cannot use None as a query value").
create_contribution_rule_check(rows, stokvel, contribution_type, amount, effective_from, effective_until) ==
    IF amount <= 0 THEN "ValidationError"
    ELSE IF effective_until = NULL THEN "ValueError"
    ELSE IF overlapping_rules(rows, stokvel, contribution_type,
                              effective_from, effective_until) # {}
         THEN "ValidationError"
    ELSE "none"

\* ContributionRuleService.create_contribution_rule.  from_arg = NULL is the
\* default effective_from=None.  An exception leaves the table as it was
\* (transaction.atomic).
create_contribution_rule(stokvel, contribution_type, amount, from_arg, effective_until) ==
    LET effective_from == IF from_arg = NULL THEN today ELSE from_arg
        exc == create_contribution_rule_check(contribRules, stokvel, contribution_type,
                                              amount, effective_from, effective_until)
    IN
    /\ Len(contribRules) < MaxRules
    /\ ret' = Raised("create_contribution_rule", exc)
    /\ contribRules' =
         IF exc = "none"
         THEN Append(contribRules,
                     ContributionRule(stokvel, contribution_type, amount,
                                      effective_from, effective_until, TRUE))
         ELSE contribRules
    /\ UNCHANGED <<contribs, penalties, accounts, cycles, util, txn, calc, today, penaltyRules, periods>>

\* ContributionRuleService.deactivate_rule.  end_arg = NULL is the default
\* end_date=None.
deactivate_rule(id, end_arg) ==
    LET end_date == IF end_arg = NULL THEN today ELSE end_arg IN
    /\ id \in DOMAIN contribRules
    /\ contribRules' = [contribRules EXCEPT ![id].effective_until = end_date,
                                            ![id].is_active = FALSE]
    /\ ret' = Raised("deactivate_rule", "none")
    /\ UNCHANGED <<contribs, penalties, accounts, cycles, util, txn, calc, today, penaltyRules, periods>>

\* ContributionRuleAdmin: the admin add form saves any row whose fields pass
\* the field validators (amount >= 0.01); it makes no interval check.
admin_add_contribution_rule(stokvel, contribution_type, amount, effective_from, effective_until, is_active) ==
    /\ Len(contribRules) < MaxRules
    /\ amount > 0
    /\ contribRules' = Append(contribRules,
           ContributionRule(stokvel, contribution_type, amount,
                            effective_from, effective_until, is_active))
    /\ ret' = Raised("admin_add_contribution_rule", "none")
    /\ UNCHANGED <<contribs, penalties, accounts, cycles, util, txn, calc, today, penaltyRules, periods>>

\* ------------------------------------------------------------ PaymentPeriod
\* PaymentPeriod.save with every later save overwriting the expected amount
\* from the rule.
expected_amount_always_from_rule(expected_amount_per_member, rule_amount) ==
    rule_amount

\* PaymentPeriod.save: expected_amount_per_member is taken from the
\* contribution rule when it is not set (None and 0 are falsy).
expected_amount_on_save(expected_amount_per_member, rule_amount) ==
    IF expected_amount_per_member = NULL \/ expected_amount_per_member = 0
    THEN rule_amount ELSE expected_amount_per_member

\* The database's check of unique_together = (stokvel, contribution_rule,
\* year, month, quarter) on an insert: a stored row conflicts when it equals
\* the new one in all five columns; as a NULL never equals a NULL in a unique
\* index, a row whose month or quarter is NULL conflicts with none.
unique_together_conflict(rows, row) ==
    \E i \in DOMAIN rows :
        /\ rows[i].stokvel = row.stokvel
        /\ rows[i].contribution_rule = row.contribution_rule
        /\ rows[i].year = row.year
        /\ row.month # NULL /\ rows[i].month = row.month
        /\ row.quarter # NULL /\ rows[i].quarter = row.quarter

\* PaymentPeriod.save on a new row (at most limit rows are stored): the
\* insert raises IntegrityError on a unique_together conflict.
PaymentPeriod_save(limit, rule, year, month, quarter, expected_arg) ==
    LET row == [stokvel |-> contribRules[rule].stokvel, contribution_rule |-> rule,
                year |-> year, month |-> month, quarter |-> quarter,
                expected_amount_per_member |->
                    expected_amount_on_save(expected_arg, contribRules[rule].amount)]
        conflict == unique_together_conflict(periods, row)
    IN
    /\ Len(periods) < limit
    /\ rule \in DOMAIN contribRules
    /\ periods' = IF conflict THEN periods ELSE Append(periods, row)
    /\ ret' = Raised("PaymentPeriod_save",
                     IF conflict THEN "IntegrityError" ELSE "none")
    /\ UNCHANGED <<contribs, penalties, accounts, cycles, util, txn, calc, today, contribRules, penaltyRules>>

\* PaymentPeriod.save on a stored row that was loaded and not modified.
PaymentPeriod_resave(id) ==
    /\ id \in DOMAIN periods
    /\ periods' = [periods EXCEPT ![id].expected_amount_per_member =
           expected_amount_on_save(periods[id].expected_amount_per_member,
                                   contribRules[periods[id].contribution_rule].amount)]
    /\ ret' = Raised("PaymentPeriod_resave", "none")
    /\ UNCHANGED <<contribs, penalties, accounts, cycles, util, txn, calc, today, contribRules, penaltyRules>>

\* ContributionRuleAdmin change form: the amount of a stored rule is edited
\* (amount >= 0.01).
admin_change_contribution_rule_amount(id, amount) ==
    /\ id \in DOMAIN contribRules
    /\ amount > 0
    /\ contribRules' = [contribRules EXCEPT ![id].amount = amount]
    /\ ret' = Raised("admin_change_contribution_rule_amount", "none")
    /\ UNCHANGED <<contribs, penalties, accounts, cycles, util, txn, calc, today, penaltyRules, periods>>

\* ------------------------------------------------------------ PenaltyRule
PenaltyRule(stokvel, penalty_type, calculation_method, amount, grace_period_days, maximum_amount, effective_from, effective_until, is_active) ==
    [stokvel |-> stokvel, penalty_type |-> penalty_type,
     calculation_method |-> calculation_method, amount |-> amount,
     grace_period_days |-> grace_period_days, maximum_amount |-> maximum_amount,
     effective_from |-> effective_from, effective_until |-> effective_until,
     is_active |-> is_active]

\* The queryset of create_penalty_rule: the active rules of the type in force
\* today whose effective_until is on or after today.  A row whose
\* effective_until is NULL fails the __gte comparison.
existing_rule(rows, stokvel, penalty_type, now) ==
    { i \in DOMAIN rows :
        /\ rows[i].stokvel = stokvel
        /\ rows[i].penalty_type = penalty_type
        /\ rows[i].is_active
        /\ rows[i].effective_from <= now
        /\ rows[i].effective_until # NULL
        /\ rows[i].effective_until >= now }

\* The part of create_penalty_rule before the insert.
create_penalty_rule_check(rows, stokvel, penalty_type, calculation_method, amount, now) ==
    IF calculation_method = "percentage" /\ amount > 100 THEN "ValidationError"
    ELSE IF amount < 0 THEN "ValidationError"
    ELSE IF existing_rule(rows, stokvel, penalty_type, now) # {} THEN "ValidationError"
    ELSE "none"

\* PenaltyRuleService.create_penalty_rule.  The new row has no
\* effective_until (the service has no such parameter) and is_active = TRUE.
create_penalty_rule(stokvel, penalty_type, calculation_method, amount, grace_period_days, maximum_amount, from_arg) ==
    LET effective_from == IF from_arg = NULL THEN today ELSE from_arg
        exc == create_penalty_rule_check(penaltyRules, stokvel, penalty_type,
                                         calculation_method, amount, today)
    IN
    /\ Len(penaltyRules) < MaxRules
    /\ ret' = Raised("create_penalty_rule", exc)
    /\ penaltyRules' =
         IF exc = "none"
         THEN Append(penaltyRules,
                     PenaltyRule(stokvel, penalty_type, calculation_method, amount,
                                 grace_period_days, maximum_amount,
                                 effective_from, NULL, TRUE))
         ELSE penaltyRules
    /\ UNCHANGED <<contribs, penalties, accounts, cycles, util, txn, calc, today, contribRules, periods>>

\* PenaltyRuleAdmin: the admin add form saves any row whose fields pass the
\* field validators (amount >= 0); it makes no interval check.
admin_add_penalty_rule(limit, stokvel, penalty_type, calculation_method, amount, effective_from, effective_until, is_active) ==
    /\ Len(penaltyRules) < limit
    /\ amount >= 0
    /\ penaltyRules' = Append(penaltyRules,
           PenaltyRule(stokvel, penalty_type, calculation_method, amount, 0, NULL,
                       effective_from, effective_until, is_active))
    /\ ret' = Raised("admin_add_penalty_rule", "none")
    /\ UNCHANGED <<contribs, penalties, accounts, cycles, util, txn, calc, today, contribRules, periods>>

\* DeactivateRuleView.post.  A contribution rule goes through deactivate_rule
\* with the default end date; a penalty rule only has is_active cleared.  An
\* unknown pk (Http404) or rule type is caught and answered with status 400.
DeactivateRuleView_post(rule_type, pk) ==
    /\ ret' = Raised("DeactivateRuleView",
                     IF \/ rule_type = "contribution" /\ pk \in DOMAIN contribRules
                        \/ rule_type = "penalty" /\ pk \in DOMAIN penaltyRules
                     THEN "none" ELSE "status400")
    /\ contribRules' =
         IF rule_type = "contribution" /\ pk \in DOMAIN contribRules
         THEN [contribRules EXCEPT ![pk].effective_until = today,
                                   ![pk].is_active = FALSE]
         ELSE contribRules
    /\ penaltyRules' =
         IF rule_type = "penalty" /\ pk \in DOMAIN penaltyRules
         THEN [penaltyRules EXCEPT ![pk].is_active = FALSE]
         ELSE penaltyRules
    /\ UNCHANGED <<contribs, penalties, accounts, cycles, util, txn, calc, today, periods>>

\* closed_matches without its is_active filter.
closed_matches_any_status(rows, stokvel, penalty_type, as_of_date) ==
    { i \in DOMAIN rows :
        /\ rows[i].stokvel = stokvel
        /\ rows[i].penalty_type = penalty_type
        /\ rows[i].effective_from <= as_of_date
        /\ rows[i].effective_until # NULL
        /\ rows[i].effective_until >= as_of_date }

\* The two querysets of get_applicable_penalty_rules.
closed_matches(rows, stokvel, penalty_type, as_of_date) ==
    { i \in DOMAIN rows :
        /\ rows[i].stokvel = stokvel
        /\ rows[i].penalty_type = penalty_type
        /\ rows[i].is_active
        /\ rows[i].effective_from <= as_of_date
        /\ rows[i].effective_until # NULL
        /\ rows[i].effective_until >= as_of_date }

open_matches(rows, stokvel, penalty_type, as_of_date) ==
    { i \in DOMAIN rows :
        /\ rows[i].stokvel = stokvel
        /\ rows[i].penalty_type = penalty_type
        /\ rows[i].is_active
        /\ rows[i].effective_from <= as_of_date
        /\ rows[i].effective_until = NULL }

\* What get_applicable_penalty_rules may return: closed.first() or
\* open.first(), NULL standing for None.  The querysets are ordered by
\* Meta.ordering = (stokvel, penalty_type), on which all their rows tie, so
\* which row first() yields is the database's choice.
applicable_penalty_rules(rows, stokvel, penalty_type, as_of_date) ==
    IF closed_matches(rows, stokvel, penalty_type, as_of_date) # {}
    THEN closed_matches(rows, stokvel, penalty_type, as_of_date)
    ELSE IF open_matches(rows, stokvel, penalty_type, as_of_date) # {}
    THEN open_matches(rows, stokvel, penalty_type, as_of_date)
    ELSE {NULL}

\* PenaltyRuleService.get_applicable_penalty_rules.  as_of_arg = NULL is the
\* default as_of_date=None.  The rule (or None) is all the caller gets: no
\* warning is raised, logged or returned.
get_applicable_penalty_rules(stokvel, penalty_type, as_of_arg) ==
    LET as_of_date == IF as_of_arg = NULL THEN today ELSE as_of_arg IN
    /\ \E r \in applicable_penalty_rules(penaltyRules, stokvel, penalty_type, as_of_date) :
         ret' = [op |-> "get_applicable_penalty_rules", raised |-> "none",
                 rule |-> r, warning |-> FALSE]
    /\ UNCHANGED <<contribs, penalties, accounts, cycles, util, txn, calc, today, contribRules, penaltyRules, periods>>

\* The calendar day advances.
Tick ==
    /\ today < MaxDay
    /\ today' = today + 1
    /\ UNCHANGED <<contribs, penalties, accounts, cycles, util, txn, calc, contribRules, penaltyRules, periods, ret>>

\* ------------------------------------------------------------ specification
CreateContributionRule ==
    \E s \in Stokvels, t \in ContributionTypes, a \in AmountInputs,
       f \in Days \cup {NULL}, u \in Days \cup {NULL} :
        create_contribution_rule(s, t, a, f, u)

DeactivateRule ==
    \E id \in DOMAIN contribRules, e \in Days \cup {NULL} : deactivate_rule(id, e)

AdminAddContributionRule ==
    \E s \in Stokvels, t \in ContributionTypes, f \in Days, u \in Days \cup {NULL},
       act \in BOOLEAN :
        admin_add_contribution_rule(s, t, 5, f, u, act)

SavePeriod ==
    \E r \in DOMAIN contribRules, e \in {NULL, 7} :
        PaymentPeriod_save(MaxPeriods, r, 2024, 1, NULL, e)

NoCall == [called |-> FALSE]

Init ==
    /\ today = 0
    /\ contribRules = <<>>
    /\ penaltyRules = <<>>
    /\ periods = <<>>
    /\ contribs = <<>>
    /\ penalties = <<>>
    /\ accounts = <<>>
    /\ cycles = <<>>
    /\ ret = Raised("none", "none")
    /\ txn = [r \in Requests |-> [pc |-> "idle"]]
    /\ calc = NoCall
    /\ util = NoCall

Next ==
    \/ CreateContributionRule
    \/ DeactivateRule
    \/ AdminAddContributionRule
    \/ SavePeriod
    \/ Tick

Spec == Init /\ [][Next]_vars

\* ------------------------------------------------- the penalty rule store
CreatePenaltyRule ==
    \E s \in Stokvels, t \in PenaltyTypes, m \in {"fixed", "percentage"},
       a \in {-1, 5, 101}, f \in Days \cup {NULL} :
        create_penalty_rule(s, t, m, a, 0, NULL, f)

DeactivateRuleView ==
    \E k \in {"contribution", "penalty", "other"}, pk \in 1..MaxRules :
        DeactivateRuleView_post(k, pk)

GetApplicablePenaltyRules ==
    \E s \in Stokvels, t \in PenaltyTypes, d \in Days \cup {NULL} :
        get_applicable_penalty_rules(s, t, d)

\* The same call over the dates 0..MaxAsOf of the resolver's specification.
ResolveDays == 0..MaxAsOf

ResolvePenaltyRule ==
    \E s \in Stokvels, t \in PenaltyTypes, d \in ResolveDays \cup {NULL} :
        get_applicable_penalty_rules(s, t, d)

NextPenalty ==
    \/ CreatePenaltyRule
    \/ DeactivateRuleView
    \/ GetApplicablePenaltyRules
    \/ Tick

SpecPenalty == Init /\ [][NextPenalty]_vars

\* ------------------------------------- the resolver over any stored rules
AdminAddPenaltyRule ==
    \E s \in Stokvels, t \in PenaltyTypes, f \in ResolveDays,
       u \in ResolveDays \cup {NULL}, act \in BOOLEAN :
        admin_add_penalty_rule(MaxStore, s, t, "fixed", 5, f, u, act)

NextResolve ==
    \/ AdminAddPenaltyRule
    \/ ResolvePenaltyRule

SpecResolve == Init /\ [][NextResolve]_vars

\* ---------------------------- concurrent create_contribution_rule requests
\* A request's create_contribution_rule up to the end of its overlap query.
\* The query reads the rows committed so far; nothing locks them.
txn_check(r, stokvel, contribution_type, amount, from_arg, effective_until) ==
    LET effective_from == IF from_arg = NULL THEN today ELSE from_arg
        exc == create_contribution_rule_check(contribRules, stokvel, contribution_type,
                                              amount, effective_from, effective_until)
    IN
    /\ txn[r].pc = "idle"
    /\ txn' = [txn EXCEPT ![r] =
                 [pc |-> IF exc = "none" THEN "checked" ELSE "done",
                  raised |-> exc,
                  rule |-> ContributionRule(stokvel, contribution_type, amount,
                                            effective_from, effective_until, TRUE)]]
    /\ UNCHANGED <<contribs, penalties, accounts, cycles, util, today, contribRules, penaltyRules, periods, ret, calc>>

\* The rest of the request: ContributionRule.objects.create and the commit
\* at the end of the atomic block.
txn_insert(r) ==
    /\ txn[r].pc = "checked"
    /\ contribRules' = Append(contribRules, txn[r].rule)
    /\ txn' = [txn EXCEPT ![r].pc = "done"]
    /\ UNCHANGED <<contribs, penalties, accounts, cycles, util, today, penaltyRules, periods, ret, calc>>

TxnCheck ==
    \E r \in Requests, s \in Stokvels, t \in ContributionTypes, a \in {0, 5},
       f \in Days \cup {NULL}, u \in Days \cup {NULL} :
        txn_check(r, s, t, a, f, u)

TxnInsert == \E r \in Requests : txn_insert(r)

NextConc ==
    \/ TxnCheck
    \/ TxnInsert

SpecConc == Init /\ [][NextConc]_vars

\* ------------------------------------------- PenaltyRule.calculate_penalty
\* calculate_penalty with the grace test days_late < grace_period_days.
calculate_penalty_strict_grace(rule, base_amount, days_late) ==
    IF days_late < rule.grace_period_days THEN 0
    ELSE IF rule.calculation_method = "percentage" THEN base_amount * rule.amount
    ELSE IF rule.calculation_method = "daily"
         THEN rule.amount * (days_late - rule.grace_period_days) * 100
    ELSE rule.amount * 100

\* calculate_penalty whose daily accrual counts from day 0, not from the end
\* of the grace period.
calculate_penalty_daily_from_day_zero(rule, base_amount, days_late) ==
    IF days_late <= rule.grace_period_days THEN 0
    ELSE IF rule.calculation_method = "percentage" THEN base_amount * rule.amount
    ELSE IF rule.calculation_method = "daily" THEN rule.amount * days_late * 100
    ELSE rule.amount * 100

\* calculate_penalty whose daily accrual has its operands swapped
\* (grace_period_days - days_late).
calculate_penalty_daily_swapped(rule, base_amount, days_late) ==
    IF days_late <= rule.grace_period_days THEN 0
    ELSE IF rule.calculation_method = "percentage" THEN base_amount * rule.amount
    ELSE IF rule.calculation_method = "daily"
         THEN rule.amount * (rule.grace_period_days - days_late) * 100
    ELSE rule.amount * 100

\* calculate_penalty whose fixed method accrues per day like the daily one.
calculate_penalty_fixed_accrues(rule, base_amount, days_late) ==
    IF days_late <= rule.grace_period_days THEN 0
    ELSE IF rule.calculation_method = "percentage" THEN base_amount * rule.amount
    ELSE IF rule.calculation_method \in {"daily", "fixed"}
         THEN rule.amount * (days_late - rule.grace_period_days) * 100
    ELSE rule.amount * 100

\* The amount calculate_penalty returns, in hundredths of a currency unit
\* (amount, maximum_amount and base_amount are whole units; amount / 100 is
\* exact in Decimal, so base_amount * (amount / 100) is base_amount * amount
\* hundredths).  A maximum_amount of Decimal('0.00') is falsy, like None.
calculate_penalty(rule, base_amount, days_late) ==
    IF days_late <= rule.grace_period_days THEN 0
    ELSE LET penalty ==
                 IF rule.calculation_method = "fixed" THEN rule.amount * 100
                 ELSE IF rule.calculation_method = "percentage"
                      THEN base_amount * rule.amount
                 ELSE IF rule.calculation_method = "daily"
                      THEN rule.amount * (days_late - rule.grace_period_days) * 100
                 ELSE rule.amount * 100
         IN IF /\ rule.maximum_amount # NULL
               /\ rule.maximum_amount # 0
               /\ penalty > rule.maximum_amount * 100
            THEN rule.maximum_amount * 100
            ELSE penalty

CalcInputs ==
    [rule : [calculation_method : Methods, amount : 0..MaxAmount,
             grace_period_days : 0..MaxGrace,
             maximum_amount : {NULL} \cup 0..MaxAmount],
     base_amount : 0..MaxBase, days_late : 0..MaxLate]

InitCalc ==
    /\ today = 0
    /\ contribRules = <<>>
    /\ penaltyRules = <<>>
    /\ periods = <<>>
    /\ contribs = <<>>
    /\ penalties = <<>>
    /\ accounts = <<>>
    /\ cycles = <<>>
    /\ ret = Raised("none", "none")
    /\ txn = [r \in Requests |-> [pc |-> "idle"]]
    /\ util = NoCall
    /\ \E in \in CalcInputs :
         calc = [called |-> FALSE, rule |-> in.rule, base_amount |-> in.base_amount,
                 days_late |-> in.days_late]

CalculatePenalty ==
    /\ ~calc.called
    /\ calc' = [called |-> TRUE, rule |-> calc.rule, base_amount |-> calc.base_amount,
                days_late |-> calc.days_late,
                penalty |-> calculate_penalty(calc.rule, calc.base_amount, calc.days_late)]
    /\ UNCHANGED <<contribs, penalties, accounts, cycles, util, today, contribRules, penaltyRules, periods, ret, txn>>

NextCalc == CalculatePenalty

SpecCalc == InitCalc /\ [][NextCalc]_vars

\* ------------------------------------------------------------------ dates
\* datetime.MAXYEAR: date(year, month, day) raises ValueError beyond it.
MAXYEAR == 9999

\* calendar.isleap.
isleap(year) == year % 4 = 0 /\ (year % 100 # 0 \/ year % 400 = 0)

\* calendar.monthrange(year, month)[1]: the number of days of the month.
monthrange(year, month) ==
    IF month = 2 THEN (IF isleap(year) THEN 29 ELSE 28)
    ELSE IF month \in {4, 6, 9, 11} THEN 30
    ELSE 31

\* A datetime.date, as the number yyyymmdd: dates compare as these numbers do.
date(year, month, day) == year * 10000 + month * 100 + day

date_year(d) == d \div 10000

date_month(d) == (d \div 100) % 100

\* Whether date(year, month, day) constructs a date (else ValueError).
date_ok(year, month, day) ==
    /\ year \in 1..MAXYEAR
    /\ month \in 1..12
    /\ day \in 1..monthrange(year, month)

max(a, b) == IF a >= b THEN a ELSE b

min(a, b) == IF a <= b THEN a ELSE b

Returned(value) == [raised |-> "none", value |-> value]

\* DateUtils.get_month_end_date.
get_month_end_date(year, month) == date(year, month, monthrange(year, month))

\* get_due_date_for_month without the clamp to the month's last day.
get_due_date_for_month_unclamped(year, month, due_day) ==
    IF due_day = 31 THEN get_month_end_date(year, month)
    ELSE date(year, month, due_day)

\* DateUtils.get_due_date_for_month, for due_day >= 1.
get_due_date_for_month(year, month, due_day) ==
    IF due_day = 31 THEN get_month_end_date(year, month)
    ELSE date(year, month, min(due_day, monthrange(year, month)))

\* get_quarter_dates whose else branch returns the fourth quarter.
get_quarter_dates_default_q4(year, quarter) ==
    IF quarter = 1 THEN Returned(<<date(year, 1, 1), date(year, 3, 31)>>)
    ELSE IF quarter = 2 THEN Returned(<<date(year, 4, 1), date(year, 6, 30)>>)
    ELSE IF quarter = 3 THEN Returned(<<date(year, 7, 1), date(year, 9, 30)>>)
    ELSE Returned(<<date(year, 10, 1), date(year, 12, 31)>>)

\* DateUtils.get_quarter_dates.
get_quarter_dates(year, quarter) ==
    IF quarter = 1 THEN Returned(<<date(year, 1, 1), date(year, 3, 31)>>)
    ELSE IF quarter = 2 THEN Returned(<<date(year, 4, 1), date(year, 6, 30)>>)
    ELSE IF quarter = 3 THEN Returned(<<date(year, 7, 1), date(year, 9, 30)>>)
    ELSE IF quarter = 4 THEN Returned(<<date(year, 10, 1), date(year, 12, 31)>>)
    ELSE [raised |-> "ValueError"]

\* --------------------------------------------------- ContributionCalculator
\* The dict calculate_monthly_periods appends for a month (its display name
\* left out).
monthly_candidate(year, month, start_date, end_date, due_day) ==
    [year |-> year, month |-> month,
     period_start |-> max(date(year, month, 1), start_date),
     period_end |-> min(get_month_end_date(year, month), end_date),
     due_date |-> get_due_date_for_month(year, month, due_day)]

\* The while loop of calculate_monthly_periods from current_date on.  Moving
\* past December builds date(year + 1, 1, 1), which raises ValueError once
\* year + 1 exceeds MAXYEAR.
RECURSIVE monthly_loop(_, _, _, _, _)
monthly_loop(current_date, start_date, end_date, due_day, acc) ==
    IF ~(current_date <= end_date) THEN Returned(acc)
    ELSE LET year == date_year(current_date)
             month == date_month(current_date)
             period_start == date(year, month, 1)
             period_end == get_month_end_date(year, month)
             periods_ == IF period_end >= start_date /\ period_start <= end_date
                         THEN Append(acc, monthly_candidate(year, month, start_date,
                                                            end_date, due_day))
                         ELSE acc
         IN IF month = 12
            THEN IF date_ok(year + 1, 1, 1)
                 THEN monthly_loop(date(year + 1, 1, 1), start_date, end_date,
                                   due_day, periods_)
                 ELSE [raised |-> "ValueError"]
            ELSE monthly_loop(date(year, month + 1, 1), start_date, end_date,
                              due_day, periods_)

\* ContributionCalculator.calculate_monthly_periods.
calculate_monthly_periods(start_date, end_date, due_day) ==
    monthly_loop(start_date, start_date, end_date, due_day, <<>>)

\* quarterly_candidate with the due date clipped to the range like period_end.
quarterly_candidate_due_clipped(year, quarter, start_date, end_date) ==
    LET q == get_quarter_dates(year, quarter).value IN
    [year |-> year, quarter |-> quarter,
     period_start |-> max(q[1], start_date),
     period_end |-> min(q[2], end_date),
     due_date |-> min(q[2], end_date)]

\* The dict calculate_quarterly_periods appends for a quarter (its display
\* name left out).
quarterly_candidate(year, quarter, start_date, end_date) ==
    LET q == get_quarter_dates(year, quarter).value IN
    [year |-> year, quarter |-> quarter,
     period_start |-> max(q[1], start_date),
     period_end |-> min(q[2], end_date),
     due_date |-> q[2]]

\* The loops of calculate_quarterly_periods from (current_year, quarter) on.
RECURSIVE quarterly_loop(_, _, _, _, _)
quarterly_loop(current_year, quarter, start_date, end_date, acc) ==
    IF ~(current_year <= date_year(end_date)) THEN acc
    ELSE IF quarter > 4
         THEN quarterly_loop(current_year + 1, 1, start_date, end_date, acc)
    ELSE LET q == get_quarter_dates(current_year, quarter).value IN
         quarterly_loop(current_year, quarter + 1, start_date, end_date,
             IF q[2] >= start_date /\ q[1] <= end_date
             THEN Append(acc, quarterly_candidate(current_year, quarter,
                                                  start_date, end_date))
             ELSE acc)

\* ContributionCalculator.calculate_quarterly_periods.
calculate_quarterly_periods(start_date, end_date) ==
    Returned(quarterly_loop(date_year(start_date), 1, start_date, end_date, <<>>))

\* ---------------------------------------------- calls of the date functions
MaxSpan == 1

Years == (2023..(2023 + MaxSpan)) \cup {MAXYEAR}

LeapRuleYears == {1900, 2000, 2023, 2024, MAXYEAR}

DueDays == {15, 30, 31}

QuarterInputs == -1..6

SampleDates ==
    { date(y, m, d) : y \in Years, m \in 1..12, d \in {1, 15} }
        \cup { get_month_end_date(y, m) : y \in Years, m \in 1..12 }

\* The ranges the period generators are called on: any inverted range, and
\* the ranges that span at most MaxSpan year ends.
SampleRanges ==
    { r \in SampleDates \X SampleDates :
        r[2] < r[1] \/ date_year(r[2]) - date_year(r[1]) <= MaxSpan }

InitDates ==
    /\ today = 0
    /\ contribRules = <<>>
    /\ penaltyRules = <<>>
    /\ periods = <<>>
    /\ contribs = <<>>
    /\ penalties = <<>>
    /\ accounts = <<>>
    /\ cycles = <<>>
    /\ ret = Raised("none", "none")
    /\ txn = [r \in Requests |-> [pc |-> "idle"]]
    /\ calc = NoCall
    /\ \/ \E y \in LeapRuleYears, m \in 1..12, d \in 1..31 :
            util = [called |-> FALSE, fn |-> "get_due_date_for_month",
                    year |-> y, month |-> m, due_day |-> d]
       \/ \E y \in LeapRuleYears, q \in QuarterInputs :
            util = [called |-> FALSE, fn |-> "get_quarter_dates",
                    year |-> y, quarter |-> q]
       \/ \E r \in SampleRanges, d \in DueDays :
            util = [called |-> FALSE, fn |-> "calculate_monthly_periods",
                    start_date |-> r[1], end_date |-> r[2], due_day |-> d]
       \/ \E r \in SampleRanges :
            util = [called |-> FALSE, fn |-> "calculate_quarterly_periods",
                    start_date |-> r[1], end_date |-> r[2]]

Call(result) ==
    /\ ~util.called
    /\ util' = [util EXCEPT !.called = TRUE] @@ [result |-> result]
    /\ UNCHANGED <<contribs, penalties, accounts, cycles, today, contribRules, penaltyRules, periods, ret, txn, calc>>

GetDueDateForMonth ==
    /\ util.fn = "get_due_date_for_month"
    /\ Call(Returned(get_due_date_for_month(util.year, util.month, util.due_day)))

GetQuarterDates ==
    /\ util.fn = "get_quarter_dates"
    /\ Call(get_quarter_dates(util.year, util.quarter))

CalculateMonthlyPeriods ==
    /\ util.fn = "calculate_monthly_periods"
    /\ Call(calculate_monthly_periods(util.start_date, util.end_date, util.due_day))

CalculateQuarterlyPeriods ==
    /\ util.fn = "calculate_quarterly_periods"
    /\ Call(calculate_quarterly_periods(util.start_date, util.end_date))

NextDates ==
    \/ GetDueDateForMonth
    \/ GetQuarterDates
    \/ CalculateMonthlyPeriods
    \/ CalculateQuarterlyPeriods

SpecDates == InitDates /\ [][NextDates]_vars

\* ------------------------------------- persisting generated period candidates
MaxRows == 2

\* The candidates of the first two months and of the first quarter of 2024.
Candidates ==
    LET monthly == calculate_monthly_periods(date(2024, 1, 1), date(2024, 2, 29), 31).value
        quarterly == calculate_quarterly_periods(date(2024, 1, 1), date(2024, 3, 31)).value
    IN { monthly[i] : i \in DOMAIN monthly } \cup { quarterly[i] : i \in DOMAIN quarterly }

\* A key of a candidate dict, None when the dict has no such key.
get(candidate, key) == IF key \in DOMAIN candidate THEN candidate[key] ELSE NULL

PeriodsCreateRule ==
    \E s \in Stokvels : create_contribution_rule(s, "regular", 5, 0, 0)

\* A candidate is persisted as a PaymentPeriod of a rule: a monthly one has
\* no quarter, a quarterly one no month.
PersistCandidate ==
    \E r \in DOMAIN contribRules, c \in Candidates :
        PaymentPeriod_save(MaxRows, r, c.year, get(c, "month"), get(c, "quarter"), NULL)

NextPeriods ==
    \/ PeriodsCreateRule
    \/ PersistCandidate

SpecPeriods == Init /\ [][NextPeriods]_vars

\* ------------------------------------------- the expected amount of a period
SnapshotCreateRule ==
    \E a \in {5, 7}, u \in ResolveDays :
        create_contribution_rule("s1", "regular", a, NULL, u)

ChangeRuleAmount ==
    \E id \in DOMAIN contribRules, a \in {5, 7} :
        admin_change_contribution_rule_amount(id, a)

SnapshotDeactivateRule ==
    \E id \in DOMAIN contribRules : deactivate_rule(id, NULL)

ResavePeriod ==
    \E id \in DOMAIN periods : PaymentPeriod_resave(id)

NextSnapshot ==
    \/ SnapshotCreateRule
    \/ ChangeRuleAmount
    \/ SnapshotDeactivateRule
    \/ SavePeriod
    \/ ResavePeriod

SpecSnapshot == Init /\ [][NextSnapshot]_vars

\* ------------------------------------------ PaymentPeriod.collection_percentage
MaxMembers == 2

MaxContributions == 2

\* PaymentPeriod.total_expected_amount: members is the list of the statuses
\* of the stokvel's members.
total_expected_amount(expected_amount_per_member, members) ==
    expected_amount_per_member
        * Cardinality({ i \in DOMAIN members : members[i] = "active" })

\* total_received_amount summing the contributions of every verification
\* status.
RECURSIVE total_received_amount_any_status(_)
total_received_amount_any_status(contributions) ==
    IF contributions = <<>> THEN 0
    ELSE Head(contributions).amount + total_received_amount_any_status(Tail(contributions))

\* PaymentPeriod.total_received_amount: Sum('amount') over the verified
\* contributions of the period, 0.00 when there is none.
RECURSIVE total_received_amount(_)
total_received_amount(contributions) ==
    IF contributions = <<>> THEN 0
    ELSE (IF Head(contributions).verification_status = "verified"
          THEN Head(contributions).amount ELSE 0)
         + total_received_amount(Tail(contributions))

\* PaymentPeriod.collection_percentage.  The value is the pair
\* <<numerator, denominator>> of the exact quotient (Decimal keeps 28
\* significant digits of it); the plain 0 of the else branch is <<0, 1>>.
collection_percentage(expected_amount_per_member, members, contributions) ==
    LET expected == total_expected_amount(expected_amount_per_member, members) IN
    IF expected > 0
    THEN Returned(<<total_received_amount(contributions) * 100, expected>>)
    ELSE Returned(<<0, 1>>)

RECURSIVE SeqsUpTo(_, _)
SeqsUpTo(S, n) ==
    IF n = 0 THEN {<<>>}
    ELSE SeqsUpTo(S, n - 1) \cup { Append(q, x) : q \in SeqsUpTo(S, n - 1), x \in S }

InitCollection ==
    /\ today = 0
    /\ contribRules = <<>>
    /\ penaltyRules = <<>>
    /\ periods = <<>>
    /\ contribs = <<>>
    /\ penalties = <<>>
    /\ accounts = <<>>
    /\ cycles = <<>>
    /\ ret = Raised("none", "none")
    /\ txn = [r \in Requests |-> [pc |-> "idle"]]
    /\ calc = NoCall
    /\ \E e \in 1..MaxAmount,
          ms \in SeqsUpTo({"active", "pending"}, MaxMembers),
          cs \in SeqsUpTo([amount : 1..MaxAmount,
                           verification_status : {"verified", "pending"}],
                          MaxContributions) :
         util = [called |-> FALSE, fn |-> "collection_percentage",
                 expected_amount_per_member |-> e, members |-> ms, contributions |-> cs]

CollectionPercentage ==
    /\ util.fn = "collection_percentage"
    /\ Call(collection_percentage(util.expected_amount_per_member, util.members,
                                  util.contributions))

NextCollection == CollectionPercentage

SpecCollection == InitCollection /\ [][NextCollection]_vars

\* ------------------------------------------------------------ Contribution
Members == {"m1", "m2"}
PaymentPeriods == {"p1", "p2"}
VerificationStatuses == {"pending", "verified", "rejected", "reversed"}

\* PaymentPeriod.contributions without the payment_period filter.
RECURSIVE contributions_of_every_period(_, _)
contributions_of_every_period(rows, payment_period) ==
    IF rows = <<>> THEN <<>>
    ELSE <<[amount |-> Head(rows).amount,
            verification_status |-> Head(rows).verification_status]>>
         \o contributions_of_every_period(Tail(rows), payment_period)

\* PaymentPeriod.contributions: the rows of Contribution whose payment_period
\* is the period, as [amount, verification_status] in table order.
RECURSIVE contributions(_, _)
contributions(rows, payment_period) ==
    IF rows = <<>> THEN <<>>
    ELSE (IF Head(rows).payment_period = payment_period
          THEN <<[amount |-> Head(rows).amount,
                  verification_status |-> Head(rows).verification_status]>>
          ELSE <<>>)
         \o contributions(Tail(rows), payment_period)

\* Contribution.objects.create / the admin add form: verification_status is
\* 'pending' unless the caller gives one; (member, payment_period) is unique.
Contribution_create(member, payment_period, amount, verification_status) ==
    /\ Len(contribs) < MaxContributions
    /\ IF \E i \in DOMAIN contribs :
            /\ contribs[i].member = member
            /\ contribs[i].payment_period = payment_period
       THEN /\ ret' = [op |-> "Contribution.create", raised |-> "IntegrityError",
                       id |-> NULL, was |-> "none"]
            /\ UNCHANGED contribs
       ELSE /\ contribs' = Append(contribs,
                                  [member |-> member, payment_period |-> payment_period,
                                   amount |-> amount,
                                   verification_status |-> verification_status])
            /\ ret' = [op |-> "Contribution.create", raised |-> "none",
                       id |-> Len(contribs) + 1, was |-> "none"]
    /\ UNCHANGED <<penalties, accounts, cycles, util, txn, calc, today, contribRules,
                   penaltyRules, periods>>

\* Contribution.verify: whatever the status was, it becomes 'verified'.
Contribution_verify(id) ==
    /\ id \in DOMAIN contribs
    /\ contribs' = [contribs EXCEPT ![id].verification_status = "verified"]
    /\ ret' = [op |-> "Contribution.verify", raised |-> "none", id |-> id,
               was |-> contribs[id].verification_status]
    /\ UNCHANGED <<penalties, accounts, cycles, util, txn, calc, today, contribRules,
                   penaltyRules, periods>>

\* Contribution.reject: whatever the status was, it becomes 'rejected'.
Contribution_reject(id) ==
    /\ id \in DOMAIN contribs
    /\ contribs' = [contribs EXCEPT ![id].verification_status = "rejected"]
    /\ ret' = [op |-> "Contribution.reject", raised |-> "none", id |-> id,
               was |-> contribs[id].verification_status]
    /\ UNCHANGED <<penalties, accounts, cycles, util, txn, calc, today, contribRules,
                   penaltyRules, periods>>

CreateContribution ==
    \E m \in Members, p \in PaymentPeriods, a \in 1..MaxAmount,
       v \in VerificationStatuses :
        Contribution_create(m, p, a, v)

VerifyContribution == \E id \in 1..MaxContributions : Contribution_verify(id)

RejectContribution == \E id \in 1..MaxContributions : Contribution_reject(id)

NextContributions ==
    \/ CreateContribution
    \/ VerifyContribution
    \/ RejectContribution

SpecContributions == Init /\ [][NextContributions]_vars

\* ------------------------------------------------------------ Penalty
MaxPenalties == 2

\* Penalty.objects.create: status defaults to 'applied', paid_amount to 0.00.
Penalty_create(penalty_amount) ==
    /\ Len(penalties) < MaxPenalties
    /\ penalties' = Append(penalties, [penalty_amount |-> penalty_amount,
                                       paid_amount |-> 0, status |-> "applied"])
    /\ ret' = [op |-> "Penalty.create", raised |-> "none", id |-> Len(penalties) + 1,
               amount |-> NULL]
    /\ UNCHANGED <<contribs, accounts, cycles, util, txn, calc, today, contribRules,
                   penaltyRules, periods>>

\* Penalty.outstanding_amount
outstanding_amount(penalty) == penalty.penalty_amount - penalty.paid_amount

\* Penalty.waive: sets the status (and the waiver fields), whatever it was.
Penalty_waive(id) ==
    /\ id \in DOMAIN penalties
    /\ penalties' = [penalties EXCEPT ![id].status = "waived"]
    /\ ret' = [op |-> "Penalty.waive", raised |-> "none", id |-> id, amount |-> NULL]
    /\ UNCHANGED <<contribs, accounts, cycles, util, txn, calc, today, contribRules,
                   penaltyRules, periods>>

\* Penalty.mark_as_paid(amount): amount None stands for penalty_amount;
\* paid_amount is assigned the amount, the status follows from the comparison
\* with penalty_amount; the current status is not read.
Penalty_mark_as_paid(id, amount_arg) ==
    /\ id \in DOMAIN penalties
    /\ LET amount == IF amount_arg = NULL THEN penalties[id].penalty_amount
                     ELSE amount_arg
       IN /\ penalties' = [penalties EXCEPT
                              ![id].paid_amount = amount,
                              ![id].status = IF amount >= penalties[id].penalty_amount
                                             THEN "paid" ELSE "outstanding"]
          /\ ret' = [op |-> "Penalty.mark_as_paid", raised |-> "none", id |-> id,
                     amount |-> amount]
    /\ UNCHANGED <<contribs, accounts, cycles, util, txn, calc, today, contribRules,
                   penaltyRules, periods>>

CreatePenalty == \E a \in 1..MaxAmount : Penalty_create(a)

WaivePenalty == \E id \in 1..MaxPenalties : Penalty_waive(id)

MarkPenaltyAsPaid ==
    \E id \in 1..MaxPenalties, a \in {NULL} \cup (1..MaxAmount) :
        Penalty_mark_as_paid(id, a)

NextPenalties ==
    \/ CreatePenalty
    \/ WaivePenalty
    \/ MarkPenaltyAsPaid

SpecPenalties == Init /\ [][NextPenalties]_vars

\* ------------------------------------------------------------ PenaltyCalculator
\* The names bound at module level in stokvel/utils.py: its imports and its
\* classes.  `from .models import ...` binds the three model classes, not the
\* name `models`.
utils_globals ==
    {"date", "timedelta", "Decimal", "List", "Dict", "Tuple", "Optional", "calendar",
     "timezone", "Stokvel", "ContributionRule", "PenaltyRule", "DateUtils",
     "ContributionCalculator", "PenaltyCalculator", "StokvelReportUtils",
     "ValidationUtils"}

\* The queryset of the two calculators: the active rules of the type with
\* effective_from <= payment_date and effective_until >= payment_date or unset.
penalty_rule_queryset(rows, stokvel, penalty_type, payment_date) ==
    { i \in DOMAIN rows :
        /\ rows[i].stokvel = stokvel
        /\ rows[i].penalty_type = penalty_type
        /\ rows[i].is_active
        /\ rows[i].effective_from <= payment_date
        /\ \/ rows[i].effective_until # NULL /\ rows[i].effective_until >= payment_date
           \/ rows[i].effective_until = NULL }

\* What a (penalty_amount, penalty_rule_used) tuple is here: the amount in
\* hundredths and the rule's id, NULL standing for None.
PenaltyTuple(penalty_amount, penalty_rule) ==
    [penalty_amount |-> penalty_amount, penalty_rule |-> penalty_rule]

\* PenaltyCalculator.calculate_late_payment_penalty: the set of its possible
\* outcomes.  Building the second filter evaluates models.Q, and the lookup of
\* the global name `models` comes first.  first() on a queryset whose rows tie
\* on Meta.ordering yields the row the database picks.
calculate_late_payment_penalty(rows, stokvel, contribution_amount, payment_date, due_date) ==
    IF payment_date <= due_date THEN {Returned(PenaltyTuple(0, NULL))}
    ELSE LET days_late == payment_date - due_date IN
         IF "models" \notin utils_globals THEN {[raised |-> "NameError"]}
         ELSE LET qs == penalty_rule_queryset(rows, stokvel, "late_payment", payment_date) IN
              IF qs = {} THEN {Returned(PenaltyTuple(0, NULL))}
              ELSE { Returned(PenaltyTuple(
                         calculate_penalty(rows[i], contribution_amount, days_late), i)) :
                     i \in qs }

\* PenaltyCalculator.calculate_insufficient_payment_penalty, likewise.
calculate_insufficient_payment_penalty(rows, stokvel, paid_amount, expected_amount, payment_date) ==
    IF paid_amount >= expected_amount THEN {Returned(PenaltyTuple(0, NULL))}
    ELSE LET shortage == expected_amount - paid_amount IN
         IF "models" \notin utils_globals THEN {[raised |-> "NameError"]}
         ELSE LET qs == penalty_rule_queryset(rows, stokvel, "insufficient_payment",
                                              payment_date) IN
              IF qs = {} THEN {Returned(PenaltyTuple(0, NULL))}
              ELSE { Returned(PenaltyTuple(calculate_penalty(rows[i], shortage, 0), i)) :
                     i \in qs }

CalculateLatePaymentPenalty ==
    \E s \in Stokvels, a \in 1..MaxAmount, p \in ResolveDays, d \in ResolveDays :
        /\ \E result \in calculate_late_payment_penalty(penaltyRules, s, a, p, d) :
             ret' = result @@ [op |-> "calculate_late_payment_penalty", stokvel |-> s,
                               contribution_amount |-> a, payment_date |-> p,
                               due_date |-> d]
        /\ UNCHANGED <<contribs, penalties, accounts, cycles, util, txn, calc, today,
                       contribRules, penaltyRules, periods>>

CalculateInsufficientPaymentPenalty ==
    \E s \in Stokvels, a \in 0..MaxAmount, e \in 1..MaxAmount, p \in ResolveDays :
        /\ \E result \in calculate_insufficient_payment_penalty(penaltyRules, s, a, e, p) :
             ret' = result @@ [op |-> "calculate_insufficient_payment_penalty",
                               stokvel |-> s, paid_amount |-> a, expected_amount |-> e,
                               payment_date |-> p]
        /\ UNCHANGED <<contribs, penalties, accounts, cycles, util, txn, calc, today,
                       contribRules, penaltyRules, periods>>

NextCalculator ==
    \/ AdminAddPenaltyRule
    \/ CalculateLatePaymentPenalty
    \/ CalculateInsufficientPaymentPenalty

SpecCalculator == Init /\ [][NextCalculator]_vars

\* ------------------------------------------------------------ StokvelReportUtils
MaxStatPeriods == 2
MaxReportPeriods == 3

\* The integer nearest to num / den (num >= 0, den > 0), a tie going to the
\* even neighbour: the rounding of round(Decimal, 2) (ROUND_HALF_EVEN).
round_half_even(num, den) ==
    LET q == num \div den
        r == num % den
    IN IF 2 * r > den THEN q + 1
       ELSE IF 2 * r < den THEN q
       ELSE IF q % 2 = 0 THEN q ELSE q + 1

\* round cutting the digits after the second decimal off.
round_truncating(num, den) == (num * 100) \div den

\* round(num / den, 2) in hundredths.  For the float quotient of
\* get_payment_compliance_report the result is the same unless num / den lies
\* on a tie, which (num / den = paid_periods / total_periods * 100) takes a
\* total_periods that is a multiple of 32.
round(num, den) == round_half_even(num * 100, den)

\* The values round(total / len, 2) may take for a float total that is a sum
\* of two-decimal floats (total and the result are hundredths): the nearest
\* hundredth, and at a decimal tie the neighbour on the side the binary
\* representation of the quotient falls on.
round_float_sum(total, len) ==
    { h \in (total \div len)..((total \div len) + 1) :
        2 * (h * len - total) <= len /\ 2 * (total - h * len) <= len }

\* sum(period.total_expected_amount for period in periods)
RECURSIVE sum_total_expected_amount(_, _)
sum_total_expected_amount(ps, members) ==
    IF ps = <<>> THEN 0
    ELSE total_expected_amount(Head(ps).expected_amount_per_member, members)
         + sum_total_expected_amount(Tail(ps), members)

\* sum(period.total_received_amount for period in periods)
RECURSIVE sum_total_received_amount(_)
sum_total_received_amount(ps) ==
    IF ps = <<>> THEN 0
    ELSE total_received_amount(Head(ps).contributions)
         + sum_total_received_amount(Tail(ps))

\* StokvelReportUtils.calculate_contribution_statistics over the periods of
\* the stokvel whose due date is in the range (ps) and the stokvel's members.
\* Amounts are whole units, collection_rate is in hundredths of a percent.
calculate_contribution_statistics(ps, members) ==
    LET total_expected == sum_total_expected_amount(ps, members)
        total_received == sum_total_received_amount(ps)
    IN Returned([total_expected |-> total_expected,
                 total_received |-> total_received,
                 total_outstanding |-> total_expected - total_received,
                 collection_rate |-> IF total_expected > 0
                                     THEN round(total_received * 100, total_expected)
                                     ELSE 0,
                 periods_count |-> Len(ps)])

\* The member_data of one active member: verified is the set of the periods
\* for which the member has a verified contribution.
member_data(total_periods, verified) ==
    LET paid_periods == Cardinality(verified) IN
    [total_periods |-> total_periods,
     paid_periods |-> paid_periods,
     compliance_rate |-> IF total_periods > 0
                         THEN round(paid_periods * 100, total_periods)
                         ELSE 0]

RECURSIVE sum_compliance_rate(_, _)
sum_compliance_rate(data, ms) ==
    IF ms = {} THEN 0
    ELSE LET m == CHOOSE x \in ms : TRUE
         IN data[m].compliance_rate + sum_compliance_rate(data, ms \ {m})

\* StokvelReportUtils.get_payment_compliance_report: the set of its possible
\* outcomes.  total_periods is the number of periods of the stokvel in the
\* year, statuses the status of each member, grid[m][p] the verification
\* status of the contribution of m for period p ("none": no row).  Rates are
\* in hundredths of a percent.
get_payment_compliance_report(total_periods, statuses, grid) ==
    LET members == { m \in DOMAIN statuses : statuses[m] = "active" }
        compliance_data ==
            [m \in members |->
                member_data(total_periods,
                            { p \in 1..total_periods : grid[m][p] = "verified" })]
    IN IF members # {}
       THEN { Returned([members_data |-> compliance_data,
                        summary |-> [total_members |-> Cardinality(members),
                                     avg_compliance_rate |-> avg]]) :
              avg \in round_float_sum(sum_compliance_rate(compliance_data, members),
                                      Cardinality(members)) }
       ELSE { Returned([members_data |-> compliance_data,
                        summary |-> [total_members |-> 0, avg_compliance_rate |-> 0]]) }

StatPeriods ==
    [expected_amount_per_member : {1, 3},
     contributions : SeqsUpTo([amount : {1, 2},
                               verification_status : {"verified", "pending"}], 1)]

InitReports ==
    /\ today = 0
    /\ contribRules = <<>>
    /\ penaltyRules = <<>>
    /\ periods = <<>>
    /\ contribs = <<>>
    /\ penalties = <<>>
    /\ accounts = <<>>
    /\ cycles = <<>>
    /\ ret = Raised("none", "none")
    /\ txn = [r \in Requests |-> [pc |-> "idle"]]
    /\ calc = NoCall
    /\ \/ \E ps \in SeqsUpTo(StatPeriods, MaxStatPeriods),
             ms \in {<<>>, <<"active">>, <<"active", "pending">>} :
            util = [called |-> FALSE, fn |-> "calculate_contribution_statistics",
                    periods |-> ps, members |-> ms]
       \/ \E n \in 0..MaxReportPeriods :
          \E st \in [Members -> {"active", "suspended"}],
             g \in [Members -> [1..n -> {"none", "pending", "verified"}]] :
            util = [called |-> FALSE, fn |-> "get_payment_compliance_report",
                    total_periods |-> n, statuses |-> st, grid |-> g]

CalculateContributionStatistics ==
    /\ util.fn = "calculate_contribution_statistics"
    /\ Call(calculate_contribution_statistics(util.periods, util.members))

GetPaymentComplianceReport ==
    /\ util.fn = "get_payment_compliance_report"
    /\ \E result \in get_payment_compliance_report(util.total_periods, util.statuses,
                                                   util.grid) :
         Call(result)

NextReports ==
    \/ CalculateContributionStatistics
    \/ GetPaymentComplianceReport

SpecReports == InitReports /\ [][NextReports]_vars

\* ------------------------------------------------------------ StokvelBankAccount
MaxAccounts == 2

AccountNumbers == {"", "1001", "1002"}

\* .filter(stokvel=..., is_primary=True).exclude(pk=...).update(is_primary=False)
clear_other_primary(rows, stokvel, pk) ==
    [i \in DOMAIN rows |->
        IF rows[i].stokvel = stokvel /\ rows[i].is_primary /\ i # pk
        THEN [rows[i] EXCEPT !.is_primary = FALSE]
        ELSE rows[i]]

\* The instance of a row: its fields as they were read, and its pk.
instance(rows, pk) ==
    [pk |-> pk, stokvel |-> rows[pk].stokvel, account_number |-> rows[pk].account_number,
     is_primary |-> rows[pk].is_primary, is_active |-> rows[pk].is_active]

\* super().save() of an instance that has a row: every column is written from
\* the instance.
save_row(rows, inst) ==
    [rows EXCEPT ![inst.pk] =
        [stokvel |-> inst.stokvel, account_number |-> inst.account_number,
         is_primary |-> inst.is_primary, is_active |-> inst.is_active]]

\* BankAccountService.add_bank_account, the atomic block as one step (the
\* bank name is the same in every call): the checks, then objects.create, whose
\* save() clears the other primary flags of the stokvel when the new row is
\* primary.
add_bank_account(stokvel, account_number, is_primary_arg) ==
    /\ Len(accounts) < MaxAccounts
    /\ IF account_number = ""
       THEN /\ ret' = Raised("add_bank_account", "ValidationError")
            /\ UNCHANGED accounts
       ELSE IF \E i \in DOMAIN accounts : accounts[i].account_number = account_number
       THEN /\ ret' = Raised("add_bank_account", "ValidationError")
            /\ UNCHANGED accounts
       ELSE LET is_primary ==
                    IF ~\E i \in DOMAIN accounts :
                           accounts[i].stokvel = stokvel /\ accounts[i].is_active
                    THEN TRUE ELSE is_primary_arg
                cleared == IF is_primary
                           THEN clear_other_primary(accounts, stokvel, NULL)
                           ELSE accounts
            IN /\ accounts' = Append(cleared,
                                     [stokvel |-> stokvel, account_number |-> account_number,
                                      is_primary |-> is_primary, is_active |-> TRUE])
               /\ ret' = Raised("add_bank_account", "none")
    /\ UNCHANGED <<contribs, penalties, cycles, util, txn, calc, today, contribRules,
                   penaltyRules, periods>>

\* A view or admin action loads the account (get_object / the queryset) and
\* calls the service with the instance.
get_object(r, op, pk) ==
    /\ txn[r].pc \in {"idle", "done"}
    /\ pk \in DOMAIN accounts
    /\ txn' = [txn EXCEPT ![r] =
                 [pc |-> IF op = "set_primary_account" THEN "set_primary_account"
                         ELSE "deactivate_account",
                  op |-> op, account |-> instance(accounts, pk)]]
    /\ UNCHANGED <<contribs, penalties, accounts, cycles, util, today, contribRules,
                   penaltyRules, periods, ret, calc>>

\* The admin change form: the instance is loaded, its two flags are set from
\* the form, and save() is called.
admin_change_account(r, pk, is_primary, is_active) ==
    /\ txn[r].pc \in {"idle", "done"}
    /\ pk \in DOMAIN accounts
    /\ txn' = [txn EXCEPT ![r] =
                 [pc |-> "save", op |-> "save", account |-> instance(accounts, pk),
                  saving |-> [instance(accounts, pk) EXCEPT !.is_primary = is_primary,
                                                            !.is_active = is_active],
                  then |-> "done"]]
    /\ UNCHANGED <<contribs, penalties, accounts, cycles, util, today, contribRules,
                   penaltyRules, periods, ret, calc>>

\* BankAccountService.set_primary_account up to account.save(): the update of
\* the other primary accounts, then account.is_primary = True.
set_primary_account(r) ==
    /\ txn[r].pc = "set_primary_account"
    /\ accounts' = clear_other_primary(accounts, txn[r].account.stokvel, txn[r].account.pk)
    /\ txn' = [txn EXCEPT ![r] =
                 [pc |-> "save", op |-> txn[r].op, account |-> txn[r].account,
                  saving |-> [txn[r].account EXCEPT !.is_primary = TRUE],
                  then |-> "done"]]
    /\ UNCHANGED <<contribs, penalties, cycles, util, today, contribRules,
                   penaltyRules, periods, ret, calc>>

\* StokvelBankAccount.save, its first statement: with is_primary set, the
\* update of the other primary accounts; without, super().save() at once.
StokvelBankAccount_save(r) ==
    /\ txn[r].pc = "save"
    /\ IF txn[r].saving.is_primary
       THEN /\ accounts' = clear_other_primary(accounts, txn[r].saving.stokvel,
                                               txn[r].saving.pk)
            /\ txn' = [txn EXCEPT ![r].pc = "super_save"]
       ELSE /\ accounts' = save_row(accounts, txn[r].saving)
            /\ txn' = [txn EXCEPT ![r].pc = txn[r].then]
    /\ UNCHANGED <<contribs, penalties, cycles, util, today, contribRules,
                   penaltyRules, periods, ret, calc>>

\* StokvelBankAccount.save, super().save() after the update.
StokvelBankAccount_super_save(r) ==
    /\ txn[r].pc = "super_save"
    /\ accounts' = save_row(accounts, txn[r].saving)
    /\ txn' = [txn EXCEPT ![r].pc = txn[r].then]
    /\ UNCHANGED <<contribs, penalties, cycles, util, today, contribRules,
                   penaltyRules, periods, ret, calc>>

\* The other active accounts of the stokvel.
other_accounts(rows, stokvel, pk) ==
    { i \in DOMAIN rows : rows[i].stokvel = stokvel /\ rows[i].is_active /\ i # pk }

\* The first row of an unordered queryset: the one with the least pk.
first_by_pk(qs) == CHOOSE i \in qs : \A j \in qs : i <= j

\* BankAccountService.deactivate_account, the promotion branch up to the
\* save() of the promoted instance.  other_accounts.first() runs the query
\* anew at each call: is_primary = True is set on the instance of the first
\* call, and the instance of the second call, read from the table, is saved.
deactivate_account(r) ==
    /\ txn[r].pc = "deactivate_account"
    /\ LET others == other_accounts(accounts, txn[r].account.stokvel, txn[r].account.pk)
       IN IF txn[r].account.is_primary /\ others # {}
          THEN txn' = [txn EXCEPT ![r] =
                         [pc |-> "save", op |-> txn[r].op, account |-> txn[r].account,
                          saving |-> instance(accounts, first_by_pk(others)),
                          then |-> "deactivate", others |-> others]]
          ELSE txn' = [txn EXCEPT ![r] =
                         [pc |-> "deactivate", op |-> txn[r].op,
                          account |-> txn[r].account, others |-> others]]
    /\ UNCHANGED <<contribs, penalties, accounts, cycles, util, today, contribRules,
                   penaltyRules, periods, ret, calc>>

\* deactivate_account, its end: is_active = False, is_primary = False, save().
deactivate_account_save(r) ==
    /\ txn[r].pc = "deactivate"
    /\ accounts' = save_row(accounts, [txn[r].account EXCEPT !.is_active = FALSE,
                                                            !.is_primary = FALSE])
    /\ txn' = [txn EXCEPT ![r] = [pc |-> "done", op |-> txn[r].op,
                                  account |-> txn[r].account, others |-> txn[r].others]]
    /\ UNCHANGED <<contribs, penalties, cycles, util, today, contribRules,
                   penaltyRules, periods, ret, calc>>

AddBankAccount ==
    \E n \in AccountNumbers, p \in BOOLEAN : add_bank_account("s1", n, p)

\* The calls of one request after the other.
OneRequest == {"r1"}

SeqAddBankAccount ==
    /\ \A r \in OneRequest : txn[r].pc \in {"idle", "done"}
    /\ AddBankAccount

SeqGetObject ==
    \E r \in OneRequest, op \in {"set_primary_account", "deactivate_account"},
       pk \in 1..MaxAccounts :
        get_object(r, op, pk)

SeqAdminChangeAccount ==
    \E r \in OneRequest, pk \in 1..MaxAccounts, p \in BOOLEAN, a \in BOOLEAN :
        admin_change_account(r, pk, p, a)

SeqSetPrimaryAccount == \E r \in OneRequest : set_primary_account(r)

SeqSave == \E r \in OneRequest : StokvelBankAccount_save(r)

SeqSuperSave == \E r \in OneRequest : StokvelBankAccount_super_save(r)

SeqDeactivateAccount == \E r \in OneRequest : deactivate_account(r)

SeqDeactivateAccountSave == \E r \in OneRequest : deactivate_account_save(r)

NextAccountsSeq ==
    \/ SeqAddBankAccount
    \/ SeqGetObject
    \/ SeqAdminChangeAccount
    \/ SeqSetPrimaryAccount
    \/ SeqSave
    \/ SeqSuperSave
    \/ SeqDeactivateAccount
    \/ SeqDeactivateAccountSave

SpecAccountsSeq == Init /\ [][NextAccountsSeq]_vars

\* Two requests whose statements interleave (each statement commits by
\* itself: the two services are not atomic).
GetObject ==
    \E r \in Requests, op \in {"set_primary_account", "deactivate_account"},
       pk \in 1..MaxAccounts :
        get_object(r, op, pk)

AdminChangeAccount ==
    \E r \in Requests, pk \in 1..MaxAccounts, p \in BOOLEAN, a \in BOOLEAN :
        admin_change_account(r, pk, p, a)

SetPrimaryAccount == \E r \in Requests : set_primary_account(r)

Save == \E r \in Requests : StokvelBankAccount_save(r)

SuperSave == \E r \in Requests : StokvelBankAccount_super_save(r)

DeactivateAccount == \E r \in Requests : deactivate_account(r)

DeactivateAccountSave == \E r \in Requests : deactivate_account_save(r)

NextAccounts ==
    \/ AddBankAccount
    \/ GetObject
    \/ AdminChangeAccount
    \/ SetPrimaryAccount
    \/ Save
    \/ SuperSave
    \/ DeactivateAccount
    \/ DeactivateAccountSave

SpecAccounts == Init /\ [][NextAccounts]_vars

\* ------------------------------------------------------------ StokvelCycle
MaxCycles == 2

\* StokvelCycle.objects.create (CycleService.create_cycle): the status is the
\* default 'planned'.  The dates of a cycle are not read by activate_cycle.
StokvelCycle_create(stokvel) ==
    /\ Len(cycles) < MaxCycles
    /\ cycles' = Append(cycles, [stokvel |-> stokvel, status |-> "planned"])
    /\ ret' = Raised("create_cycle", "none")
    /\ UNCHANGED <<contribs, penalties, accounts, util, txn, calc, today, contribRules,
                   penaltyRules, periods>>

\* ActivateCycleView.post: cycle = self.get_object().
ActivateCycleView_get_object(r, pk) ==
    /\ txn[r].pc \in {"idle", "done"}
    /\ pk \in DOMAIN cycles
    /\ txn' = [txn EXCEPT ![r] =
                 [pc |-> "activate_cycle",
                  cycle |-> [pk |-> pk, stokvel |-> cycles[pk].stokvel,
                             status |-> cycles[pk].status]]]
    /\ UNCHANGED <<contribs, penalties, accounts, cycles, util, today, contribRules,
                   penaltyRules, periods, ret, calc>>

\* CycleService.activate_cycle, its first statement: every active cycle of
\* the stokvel becomes 'completed'.
activate_cycle(r) ==
    /\ txn[r].pc = "activate_cycle"
    /\ cycles' = [i \in DOMAIN cycles |->
                    IF cycles[i].stokvel = txn[r].cycle.stokvel /\ cycles[i].status = "active"
                    THEN [cycles[i] EXCEPT !.status = "completed"]
                    ELSE cycles[i]]
    /\ txn' = [txn EXCEPT ![r].pc = "save"]
    /\ UNCHANGED <<contribs, penalties, accounts, util, today, contribRules,
                   penaltyRules, periods, ret, calc>>

\* activate_cycle: cycle.status = 'active'; cycle.save().
activate_cycle_save(r) ==
    /\ txn[r].pc = "save"
    /\ cycles' = [cycles EXCEPT ![txn[r].cycle.pk] =
                    [stokvel |-> txn[r].cycle.stokvel, status |-> "active"]]
    /\ txn' = [txn EXCEPT ![r].pc = "post_save", ![r].cycle.status = "active"]
    /\ UNCHANGED <<contribs, penalties, accounts, util, today, contribRules,
                   penaltyRules, periods, ret, calc>>

\* stokvel_cycle_post_save, run by save(): the instance is 'active', so every
\* other active cycle of the stokvel becomes 'completed'.
stokvel_cycle_post_save(r) ==
    /\ txn[r].pc = "post_save"
    /\ cycles' = IF txn[r].cycle.status = "active"
                 THEN [i \in DOMAIN cycles |->
                         IF /\ cycles[i].stokvel = txn[r].cycle.stokvel
                            /\ cycles[i].status = "active"
                            /\ i # txn[r].cycle.pk
                         THEN [cycles[i] EXCEPT !.status = "completed"]
                         ELSE cycles[i]]
                 ELSE cycles
    /\ txn' = [txn EXCEPT ![r].pc = "done"]
    /\ UNCHANGED <<contribs, penalties, accounts, util, today, contribRules,
                   penaltyRules, periods, ret, calc>>

CreateCycle == \E s \in Stokvels : StokvelCycle_create(s)

GetCycle == \E r \in Requests, pk \in 1..MaxCycles : ActivateCycleView_get_object(r, pk)

ActivateCycle == \E r \in Requests : activate_cycle(r)

ActivateCycleSave == \E r \in Requests : activate_cycle_save(r)

CyclePostSave == \E r \in Requests : stokvel_cycle_post_save(r)

NextCycles ==
    \/ CreateCycle
    \/ GetCycle
    \/ ActivateCycle
    \/ ActivateCycleSave
    \/ CyclePostSave

SpecCycles == Init /\ [][NextCycles]_vars

\* ================================================================ properties
\* Half-open effective intervals, an unset effective_until reaching to
\* +infinity: a and b intersect iff a.from < b.until and b.from < a.until.
Intersects(a, b) ==
    /\ (b.effective_until = NULL \/ a.effective_from < b.effective_until)
    /\ (a.effective_until = NULL \/ b.effective_from < a.effective_until)

\* The rule r is in force for (stokvel, penalty_type) on the day d.
RuleInForce(r, stokvel, penalty_type, d) ==
    /\ r.stokvel = stokvel
    /\ r.penalty_type = penalty_type
    /\ r.is_active
    /\ r.effective_from <= d
    /\ (r.effective_until = NULL \/ r.effective_until >= d)

InForce(rows, stokvel, penalty_type, d) ==
    { i \in DOMAIN rows : RuleInForce(rows[i], stokvel, penalty_type, d) }

AsOf(d) == IF d = NULL THEN today ELSE d

\* C1: a rule that create_contribution_rule accepts intersects no active
\* rule of its (stokvel, contribution_type), an active open-ended rule
\* included, so that no two active rules of one (stokvel, contribution_type)
\* come to intersect through the service.
C1_CreatedRuleIntersectsNoActiveRule ==
    [][ (/\ ret'.op = "create_contribution_rule"
         /\ ret'.raised = "none"
         /\ Len(contribRules') = Len(contribRules) + 1)
        => \A i \in DOMAIN contribRules :
             (/\ contribRules[i].is_active
              /\ contribRules[i].stokvel = contribRules'[Len(contribRules')].stokvel
              /\ contribRules[i].contribution_type =
                     contribRules'[Len(contribRules')].contribution_type)
             => ~Intersects(contribRules[i], contribRules'[Len(contribRules')]) ]_vars

\* C2: no two active penalty rules of the same (stokvel, penalty_type) have
\* intersecting effective intervals, whatever create_penalty_rule calls
\* were made.
C2_NoIntersectingActivePenaltyRules ==
    \A i, j \in DOMAIN penaltyRules :
        (/\ i # j
         /\ penaltyRules[i].is_active
         /\ penaltyRules[j].is_active
         /\ penaltyRules[i].stokvel = penaltyRules[j].stokvel
         /\ penaltyRules[i].penalty_type = penaltyRules[j].penalty_type)
        => ~Intersects(penaltyRules[i], penaltyRules[j])

\* C3: of two concurrent create_contribution_rule requests for the same
\* (stokvel, contribution_type) and the same effective interval, at most one
\* succeeds.
C3_ConcurrentCreatesNotBothStored ==
    \A r, q \in Requests :
        (/\ r # q
         /\ txn[r].pc = "done"
         /\ txn[q].pc = "done"
         /\ txn[r].rule = txn[q].rule)
        => ~(txn[r].raised = "none" /\ txn[q].raised = "none")

\* C4: create_contribution_rule accepts and stores every candidate with a
\* valid amount whose half-open interval intersects no active rule of its
\* (stokvel, contribution_type): a candidate touching an existing rule's end
\* and an open-ended candidate included.
C4_AcceptsEveryDisjointCandidate ==
    [][ \A s \in Stokvels, t \in ContributionTypes, f \in Days, u \in Days \cup {NULL} :
          (/\ create_contribution_rule(s, t, 5, f, u)
           /\ (u = NULL \/ f <= u)
           /\ \A i \in DOMAIN contribRules :
                (/\ contribRules[i].is_active
                 /\ contribRules[i].stokvel = s
                 /\ contribRules[i].contribution_type = t)
                => ~Intersects(contribRules[i], ContributionRule(s, t, 5, f, u, TRUE)))
          => (/\ ret'.raised = "none"
              /\ contribRules' = Append(contribRules, ContributionRule(s, t, 5, f, u, TRUE))) ]_vars

\* C5: a rule write with malformed input (create_contribution_rule with
\* amount <= 0 or effective_until < effective_from, create_penalty_rule with
\* amount < 0 or a percentage above 100) raises a validation error and leaves
\* the stored rules as they were.
C5_MalformedWriteRejected ==
    [][ /\ \A s \in Stokvels, t \in ContributionTypes, a \in AmountInputs,
             f \in Days \cup {NULL}, u \in Days \cup {NULL} :
             (/\ create_contribution_rule(s, t, a, f, u)
              /\ (a <= 0 \/ (u # NULL /\ u < AsOf(f))))
             => (/\ ret'.raised = "ValidationError"
                 /\ contribRules' = contribRules
                 /\ penaltyRules' = penaltyRules)
        /\ \A s \in Stokvels, t \in PenaltyTypes, m \in Methods, a \in {-1, 5, 101},
             f \in Days \cup {NULL} :
             (/\ create_penalty_rule(s, t, m, a, 0, NULL, f)
              /\ (a < 0 \/ (m = "percentage" /\ a > 100)))
             => (/\ ret'.raised = "ValidationError"
                 /\ contribRules' = contribRules
                 /\ penaltyRules' = penaltyRules) ]_vars

\* C6: get_applicable_penalty_rules returns a rule only if that rule is
\* active, of the stokvel and type asked for, and in force on the as-of
\* date, and returns none only if no stored rule is.
C6_ResolverReturnsRuleInForce ==
    [][ \A s \in Stokvels, t \in PenaltyTypes, d \in ResolveDays \cup {NULL} :
          get_applicable_penalty_rules(s, t, d)
          => (/\ ret'.rule # NULL
                   => RuleInForce(penaltyRules[ret'.rule], s, t, AsOf(d))
              /\ ret'.rule = NULL
                   => InForce(penaltyRules, s, t, AsOf(d)) = {}) ]_vars

\* C6 witness: the resolver has returned a stored open-ended rule while the
\* table holds a rule.
C6_Witness ==
    /\ ret.op = "get_applicable_penalty_rules"
    /\ ret.rule # NULL
    /\ penaltyRules[ret.rule].effective_until = NULL

\* C7: when more than one active rule of the (stokvel, penalty_type) is in
\* force on the as-of date, get_applicable_penalty_rules returns the one
\* with the latest effective_from and signals a rule-integrity warning.
C7_LatestRuleAndWarning ==
    [][ \A s \in Stokvels, t \in PenaltyTypes, d \in Days \cup {NULL} :
          (/\ get_applicable_penalty_rules(s, t, d)
           /\ Cardinality(InForce(penaltyRules, s, t, AsOf(d))) > 1)
          => (/\ ret'.rule # NULL
              /\ \A j \in InForce(penaltyRules, s, t, AsOf(d)) :
                   penaltyRules[j].effective_from
                       <= penaltyRules[ret'.rule].effective_from
              /\ ret'.warning) ]_vars

\* C8: deactivating a rule (deactivate_rule for a contribution rule,
\* DeactivateRuleView with rule_type 'penalty' for a penalty rule) leaves it
\* stored with is_active = FALSE and effective_until = the end date (today
\* by default), and changes no other rule and no payment period.
C8_DeactivationSetsEndAndFlagOnly ==
    [][ /\ \A id \in DOMAIN contribRules, e \in Days \cup {NULL} :
             deactivate_rule(id, e)
             => (/\ contribRules' = [contribRules EXCEPT
                                       ![id].effective_until = AsOf(e),
                                       ![id].is_active = FALSE]
                 /\ penaltyRules' = penaltyRules
                 /\ periods' = periods)
        /\ \A pk \in DOMAIN penaltyRules :
             DeactivateRuleView_post("penalty", pk)
             => (/\ penaltyRules' = [penaltyRules EXCEPT
                                       ![pk].effective_until = today,
                                       ![pk].is_active = FALSE]
                 /\ contribRules' = contribRules
                 /\ periods' = periods)
        /\ \A pk \in DOMAIN contribRules :
             DeactivateRuleView_post("contribution", pk)
             => (/\ contribRules' = [contribRules EXCEPT
                                       ![pk].effective_until = today,
                                       ![pk].is_active = FALSE]
                 /\ penaltyRules' = penaltyRules
                 /\ periods' = periods) ]_vars

\* C9: calculate_penalty returns 0 whenever days_late <= grace_period_days,
\* for every calculation method, base amount and maximum_amount.
C9_GracePeriodGivesZero ==
    (calc.called /\ calc.days_late <= calc.rule.grace_period_days)
    => calc.penalty = 0

\* C9 witness: a call on the last day of grace of a rule with a positive
\* amount has returned.
C9_Witness ==
    /\ calc.called
    /\ calc.rule.amount > 0
    /\ calc.rule.grace_period_days > 0
    /\ calc.days_late = calc.rule.grace_period_days

\* C10: with maximum_amount set (any value >= 0, 0.00 included),
\* calculate_penalty never returns more than maximum_amount.
C10_NeverAboveMaximum ==
    (calc.called /\ calc.rule.maximum_amount # NULL)
    => calc.penalty <= calc.rule.maximum_amount * 100

\* The penalty of the reference function, in hundredths, for a payment past
\* the grace period.
ReferencePenalty(method, amount, grace, base, days) ==
    CASE method = "fixed" -> amount * 100
      [] method = "percentage" -> base * amount
      [] method = "daily" -> amount * (days - grace) * 100
      [] method = "tiered" -> amount * 100

\* C11: for days_late > grace_period_days and no maximum_amount,
\* calculate_penalty returns the reference amount of its method (tiered the
\* same as fixed); with a positive maximum_amount it returns the lesser of the
\* reference amount and the maximum.
C11_EqualsReferenceFunction ==
    (calc.called /\ calc.days_late > calc.rule.grace_period_days)
    => LET ref == ReferencePenalty(calc.rule.calculation_method, calc.rule.amount,
                                   calc.rule.grace_period_days, calc.base_amount,
                                   calc.days_late)
           cap == calc.rule.maximum_amount
       IN /\ cap = NULL => calc.penalty = ref
          /\ (cap # NULL /\ cap > 0)
               => calc.penalty = IF ref > cap * 100 THEN cap * 100 ELSE ref

\* C11 witness: a daily rule with a grace period and no maximum has been
\* applied to a payment more than one day past the grace period.
C11_Witness ==
    /\ calc.called
    /\ calc.rule.calculation_method = "daily"
    /\ calc.rule.amount > 0
    /\ calc.rule.grace_period_days > 0
    /\ calc.rule.maximum_amount = NULL
    /\ calc.days_late > calc.rule.grace_period_days + 1

\* C12: for a daily rule, calculate_penalty is non-decreasing in days_late:
\* no later day gives less than the day of the call.
C12_DailyMonotonicInDaysLate ==
    (calc.called /\ calc.rule.calculation_method = "daily")
    => \A d2 \in 0..MaxLate :
         calc.days_late <= d2
         => calc.penalty <= calculate_penalty(calc.rule, calc.base_amount, d2)

\* C12 witness: a daily rule with a maximum_amount has returned a positive
\* penalty for a payment that could have been later still.
C12_Witness ==
    /\ calc.called
    /\ calc.rule.calculation_method = "daily"
    /\ calc.rule.maximum_amount # NULL
    /\ calc.penalty > 0
    /\ calc.days_late < MaxLate

\* C13 as stated: for a fixed rule, any two days_late values give the same
\* amount.
C13_FixedConstantInDaysLate ==
    (calc.called /\ calc.rule.calculation_method = "fixed")
    => \A d2 \in 0..MaxLate :
         calculate_penalty(calc.rule, calc.base_amount, d2) = calc.penalty

\* C13 amended: for a fixed rule, any two days_late values beyond the grace
\* period give the same amount (and any within it give 0).
C13_FixedConstantPastGrace ==
    (calc.called /\ calc.rule.calculation_method = "fixed")
    => \A d2 \in 0..MaxLate :
         (calc.days_late > calc.rule.grace_period_days)
             = (d2 > calc.rule.grace_period_days)
         => calculate_penalty(calc.rule, calc.base_amount, d2) = calc.penalty

\* C13 witness: a fixed rule with a positive amount has been applied past
\* its grace period, with a later day still to compare.
C13_Witness ==
    /\ calc.called
    /\ calc.rule.calculation_method = "fixed"
    /\ calc.rule.amount > 0
    /\ calc.days_late > calc.rule.grace_period_days
    /\ calc.days_late < MaxLate

\* The number of days of a month of the Gregorian calendar.
DaysInMonth(y, m) ==
    IF m = 2
    THEN (IF (y % 4 = 0 /\ y % 100 # 0) \/ y % 400 = 0 THEN 29 ELSE 28)
    ELSE <<31, 0, 31, 30, 31, 30, 31, 31, 30, 31, 30, 31>>[m]

LastOfMonth(y, m) == y * 10000 + m * 100 + DaysInMonth(y, m)

FirstOfMonth(y, m) == y * 10000 + m * 100 + 1

\* C14: get_due_date_for_month(year, month, due_day), month in 1..12 and
\* due_day in 1..31, is the day min(due_day, days in the month) of that year
\* and month; due_day 31 gives the month's last day (2024-02-29, 2023-02-28).
C14_DueDateClampedToMonth ==
    (util.called /\ util.fn = "get_due_date_for_month")
    => /\ util.result.raised = "none"
       /\ util.result.value =
              util.year * 10000 + util.month * 100
                + (IF util.due_day <= DaysInMonth(util.year, util.month)
                   THEN util.due_day ELSE DaysInMonth(util.year, util.month))
       /\ util.due_day = 31
            => /\ util.result.value = get_month_end_date(util.year, util.month)
               /\ util.result.value = LastOfMonth(util.year, util.month)
       /\ (util.year = 2024 /\ util.month = 2 /\ util.due_day = 31)
            => util.result.value = 20240229
       /\ (util.year = 2023 /\ util.month = 2 /\ util.due_day = 31)
            => util.result.value = 20230228

\* C14 witness: the due date of due_day 30 in a February of a century year
\* that is not a leap year has been computed.
C14_Witness ==
    /\ util.called
    /\ util.fn = "get_due_date_for_month"
    /\ util.year = 1900
    /\ util.month = 2
    /\ util.due_day = 30
    /\ util.result.value = 19000228

\* C15: get_quarter_dates(year, q) returns, for q in 1..4, the first day of
\* month 3q-2 and the last day of month 3q (so the first window starts on
\* 1 January, each next one starts the day after the previous one ends, and
\* the fourth ends on 31 December), and raises ValueError, returning nothing,
\* for every other q.
C15_QuarterWindowsOrValueError ==
    (util.called /\ util.fn = "get_quarter_dates")
    => IF util.quarter \in 1..4
       THEN /\ util.result.raised = "none"
            /\ util.result.value[1] = FirstOfMonth(util.year, 3 * util.quarter - 2)
            /\ util.result.value[2] = LastOfMonth(util.year, 3 * util.quarter)
            /\ util.quarter < 4
                 => get_quarter_dates(util.year, util.quarter + 1).value[1]
                      = FirstOfMonth(util.year, 3 * util.quarter + 1)
       ELSE util.result = [raised |-> "ValueError"]

\* C15 witness: a call with a quarter outside 1..4 has raised.
C15_Witness ==
    /\ util.called
    /\ util.fn = "get_quarter_dates"
    /\ util.quarter = 5
    /\ util.result.raised = "ValueError"

\* The calendar months that intersect [start_date, end_date].
MonthsOfRange(start_date, end_date) ==
    { ym \in (start_date \div 10000 .. end_date \div 10000) \X (1..12) :
        /\ FirstOfMonth(ym[1], ym[2]) <= end_date
        /\ LastOfMonth(ym[1], ym[2]) >= start_date }

\* C16: calculate_monthly_periods returns, for start_date <= end_date, one
\* candidate per calendar month intersecting the range, in ascending (year,
\* month) order without duplicates, each clipped to the range and with the
\* due date of get_due_date_for_month; for start_date > end_date it returns
\* the empty list.
C16_OneCandidatePerMonth ==
    (util.called /\ util.fn = "calculate_monthly_periods")
    => /\ util.result.raised = "none"
       /\ IF util.start_date <= util.end_date
          THEN LET ps == util.result.value IN
               /\ { <<ps[i].year, ps[i].month>> : i \in DOMAIN ps }
                     = MonthsOfRange(util.start_date, util.end_date)
               /\ \A i \in DOMAIN ps : \A j \in DOMAIN ps :
                     i < j => ps[i].year * 12 + ps[i].month
                                < ps[j].year * 12 + ps[j].month
               /\ \A i \in DOMAIN ps :
                     /\ ps[i].period_start
                          = (IF FirstOfMonth(ps[i].year, ps[i].month) >= util.start_date
                             THEN FirstOfMonth(ps[i].year, ps[i].month)
                             ELSE util.start_date)
                     /\ ps[i].period_end
                          = (IF LastOfMonth(ps[i].year, ps[i].month) <= util.end_date
                             THEN LastOfMonth(ps[i].year, ps[i].month)
                             ELSE util.end_date)
                     /\ ps[i].period_start <= ps[i].period_end
                     /\ ps[i].due_date
                          = get_due_date_for_month(ps[i].year, ps[i].month, util.due_day)
          ELSE util.result.value = <<>>

\* The calendar quarters that intersect [start_date, end_date].
QuartersOfRange(start_date, end_date) ==
    { yq \in (start_date \div 10000 .. end_date \div 10000) \X (1..4) :
        /\ FirstOfMonth(yq[1], 3 * yq[2] - 2) <= end_date
        /\ LastOfMonth(yq[1], 3 * yq[2]) >= start_date }

\* C17: calculate_quarterly_periods returns, for start_date <= end_date, one
\* candidate per calendar quarter intersecting the range, in ascending (year,
\* quarter) order, each period the quarter clipped to the range and each
\* due_date the unclipped last day of the quarter.
C17_OneCandidatePerQuarter ==
    (util.called /\ util.fn = "calculate_quarterly_periods"
        /\ util.start_date <= util.end_date)
    => /\ util.result.raised = "none"
       /\ LET ps == util.result.value IN
          /\ { <<ps[i].year, ps[i].quarter>> : i \in DOMAIN ps }
                = QuartersOfRange(util.start_date, util.end_date)
          /\ \A i \in DOMAIN ps : \A j \in DOMAIN ps :
                i < j => ps[i].year * 4 + ps[i].quarter < ps[j].year * 4 + ps[j].quarter
          /\ \A i \in DOMAIN ps :
                LET first == FirstOfMonth(ps[i].year, 3 * ps[i].quarter - 2)
                    last == LastOfMonth(ps[i].year, 3 * ps[i].quarter)
                IN /\ ps[i].period_start
                        = (IF first >= util.start_date THEN first ELSE util.start_date)
                   /\ ps[i].period_end
                        = (IF last <= util.end_date THEN last ELSE util.end_date)
                   /\ ps[i].period_start >= util.start_date
                   /\ ps[i].period_end <= util.end_date
                   /\ ps[i].period_start <= ps[i].period_end
                   /\ ps[i].due_date = last

\* C17 witness: a range that starts inside a quarter, ends inside a quarter
\* of the next year, and has given more than four candidates.
C17_Witness ==
    /\ util.called
    /\ util.fn = "calculate_quarterly_periods"
    /\ util.start_date = 20230215
    /\ util.end_date = 20240515
    /\ Len(util.result.value) = 6
    /\ util.result.value[6].due_date = 20240630

\* C18: the PaymentPeriod table holds at most one row per (stokvel,
\* contribution_rule, year, month, quarter), a monthly period having no
\* quarter and a quarterly one no month, however often candidates are
\* persisted.
C18_OneRowPerPeriod ==
    \A i \in DOMAIN periods : \A j \in DOMAIN periods :
        (/\ periods[i].stokvel = periods[j].stokvel
         /\ periods[i].contribution_rule = periods[j].contribution_rule
         /\ periods[i].year = periods[j].year
         /\ periods[i].month = periods[j].month
         /\ periods[i].quarter = periods[j].quarter)
        => i = j

\* C19: the expected_amount_per_member of a stored PaymentPeriod never
\* changes: not when its rule's amount is edited, its rule is deactivated, a
\* successor rule is created, or the period is saved again; and a new period
\* gets the amount given, or else its rule's amount at that moment.
C19_ExpectedAmountIsSnapshot ==
    [][ /\ \A i \in DOMAIN periods :
             /\ i \in DOMAIN periods'
             /\ periods'[i].expected_amount_per_member
                  = periods[i].expected_amount_per_member
        /\ \A i \in DOMAIN periods' \ DOMAIN periods :
             periods'[i].expected_amount_per_member
                 \in {7, contribRules[periods'[i].contribution_rule].amount} ]_vars

\* C19 witness: a period has been saved again after its rule's amount was
\* changed and the rule was deactivated and succeeded by another rule.
C19_Witness ==
    /\ ret.op = "PaymentPeriod_resave"
    /\ Len(periods) >= 1
    /\ Len(contribRules) >= 2
    /\ periods[1].contribution_rule = 1
    /\ ~contribRules[1].is_active
    /\ contribRules[2].is_active
    /\ periods[1].expected_amount_per_member = 5
    /\ contribRules[1].amount = 7

\* The sum of the amounts of the verified contributions.
RECURSIVE VerifiedSum(_)
VerifiedSum(cs) ==
    IF cs = <<>> THEN 0
    ELSE VerifiedSum(SubSeq(cs, 1, Len(cs) - 1))
         + (IF cs[Len(cs)].verification_status = "verified" THEN cs[Len(cs)].amount ELSE 0)

ActiveCount(ms) == Cardinality({ i \in DOMAIN ms : ms[i] = "active" })

\* The collection percentage is the number n (value = <<num, den>>, den > 0).
PercentageIs(value, n) == value[2] > 0 /\ value[1] = n * value[2]

\* C20 as stated: collection_percentage never raises, equals
\* total_received_amount / total_expected_amount * 100 when
\* total_expected_amount > 0, and is 0 exactly when (if and only if)
\* total_expected_amount is 0.
C20_ZeroExactlyWhenNothingExpected ==
    (util.called /\ util.fn = "collection_percentage")
    => LET expected == util.expected_amount_per_member * ActiveCount(util.members)
           received == VerifiedSum(util.contributions)
       IN /\ util.result.raised = "none"
          /\ expected > 0
               => /\ util.result.value[2] > 0
                  /\ util.result.value[1] * expected
                       = received * 100 * util.result.value[2]
          /\ PercentageIs(util.result.value, 0) <=> expected = 0

\* C20 amended: collection_percentage never raises, equals
\* total_received_amount / total_expected_amount * 100 when
\* total_expected_amount > 0, and is 0 whenever total_expected_amount is 0;
\* it is 0 if and only if total_expected_amount or total_received_amount is 0.
C20_CollectionPercentage ==
    (util.called /\ util.fn = "collection_percentage")
    => LET expected == util.expected_amount_per_member * ActiveCount(util.members)
           received == VerifiedSum(util.contributions)
       IN /\ util.result.raised = "none"
          /\ expected > 0
               => /\ util.result.value[2] > 0
                  /\ util.result.value[1] * expected
                       = received * 100 * util.result.value[2]
          /\ expected = 0 => PercentageIs(util.result.value, 0)
          /\ PercentageIs(util.result.value, 0) <=> (expected = 0 \/ received = 0)

\* C20 witness: a period with two active members expecting 2 each, one
\* verified contribution of 2 and one pending one, has computed 50 percent.
C20_Witness ==
    /\ util.called
    /\ util.fn = "collection_percentage"
    /\ util.expected_amount_per_member = 2
    /\ util.members = <<"active", "active">>
    /\ Len(util.contributions) = 2
    /\ util.contributions[1].verification_status = "verified"
    /\ util.contributions[1].amount = 2
    /\ util.contributions[2].verification_status = "pending"
    /\ PercentageIs(util.result.value, 50)

\* The ids of the contributions of a period that are verified right now.
VerifiedIds(p) ==
    { i \in DOMAIN contribs :
        contribs[i].payment_period = p /\ contribs[i].verification_status = "verified" }

RECURSIVE AmountOver(_)
AmountOver(ids) ==
    IF ids = {} THEN 0
    ELSE LET i == CHOOSE x \in ids : TRUE IN contribs[i].amount + AmountOver(ids \ {i})

\* C21: after any sequence of contribution creations, verify and reject
\* calls, a period's total_received_amount is the sum of the amounts of
\* exactly the contributions of that period that are 'verified' now (0 when
\* there is none); a pending, rejected or reversed contribution, and one
\* rejected after it was verified, adds nothing.
C21_TotalReceivedIsVerifiedSum ==
    \A p \in PaymentPeriods :
        total_received_amount(contributions(contribs, p)) = AmountOver(VerifiedIds(p))

\* A contribution that was verified has just been rejected, next to a verified
\* one of the same period: the total is the amount of the other one alone.
C21_Witness ==
    /\ ret.op = "Contribution.reject"
    /\ ret.was = "verified"
    /\ \E j \in DOMAIN contribs :
        /\ j # ret.id
        /\ contribs[j].payment_period = contribs[ret.id].payment_period
        /\ contribs[j].verification_status = "verified"
        /\ total_received_amount(contributions(contribs, contribs[j].payment_period))
             = contribs[j].amount

\* C22: 'waived' is terminal: once Penalty.waive has been applied, no later
\* waive or mark_as_paid call changes the status away from 'waived' or changes
\* paid_amount; and penalty_amount is never changed by waive or mark_as_paid.
C22_WaivedIsTerminal ==
    [][\A i \in DOMAIN penalties :
          /\ penalties'[i].penalty_amount = penalties[i].penalty_amount
          /\ penalties[i].status = "waived" =>
                /\ penalties'[i].status = "waived"
                /\ penalties'[i].paid_amount = penalties[i].paid_amount]_vars

\* C30: after Penalty.mark_as_paid(amount) the status is 'paid' if and only if
\* paid_amount >= penalty_amount and 'outstanding' otherwise,
\* outstanding_amount is penalty_amount - paid_amount, and after a payment
\* that does not take the total past penalty_amount (a partial payment, or
\* the one that completes it) paid_amount is the total paid so far and
\* outstanding_amount is between 0 and penalty_amount.
C30_PaidAmountIsTotalPaid ==
    [][ret'.op = "Penalty.mark_as_paid" =>
          LET before == penalties[ret'.id]
              after == penalties'[ret'.id]
          IN /\ (after.status = "paid") <=> (after.paid_amount >= after.penalty_amount)
             /\ after.status \in {"paid", "outstanding"}
             /\ outstanding_amount(after) = after.penalty_amount - after.paid_amount
             /\ before.paid_amount + ret'.amount <= before.penalty_amount =>
                   /\ after.paid_amount = before.paid_amount + ret'.amount
                   /\ outstanding_amount(after) \in 0..after.penalty_amount]_vars

\* C23: calculate_late_payment_penalty returns (0, None) when payment_date <=
\* due_date; otherwise it returns (rule.calculate_penalty(contribution_amount,
\* days late), rule) for the 'late_payment' rule of the stokvel in force on the
\* payment date (not the due date), never a rule of another penalty_type.
C23_LatePenaltyFromRuleOnPaymentDate ==
    ret.op = "calculate_late_payment_penalty" =>
        IF ret.payment_date <= ret.due_date
        THEN ret.raised = "none" /\ ret.value = PenaltyTuple(0, NULL)
        ELSE /\ ret.raised = "none"
             /\ LET in_force == InForce(penaltyRules, ret.stokvel, "late_payment",
                                        ret.payment_date)
                IN IF in_force = {} THEN ret.value = PenaltyTuple(0, NULL)
                   ELSE /\ ret.value.penalty_rule \in in_force
                        /\ ret.value.penalty_amount =
                             calculate_penalty(penaltyRules[ret.value.penalty_rule],
                                               ret.contribution_amount,
                                               ret.payment_date - ret.due_date)

\* C24: for a late or short payment with no applicable penalty rule the
\* calculators return a zero penalty without raising, and the value differs
\* from the one returned for a payment on time, or in full.
C24_NoRuleZeroAndDistinguishable ==
    /\ ( /\ ret.op = "calculate_late_payment_penalty"
         /\ ret.payment_date > ret.due_date
         /\ InForce(penaltyRules, ret.stokvel, "late_payment", ret.payment_date) = {} )
       => /\ ret.raised = "none"
          /\ ret.value.penalty_amount = 0
          /\ \A on_time \in calculate_late_payment_penalty(
                               penaltyRules, ret.stokvel, ret.contribution_amount,
                               ret.due_date, ret.due_date) :
                ret.value # on_time.value
    /\ ( /\ ret.op = "calculate_insufficient_payment_penalty"
         /\ ret.paid_amount < ret.expected_amount
         /\ InForce(penaltyRules, ret.stokvel, "insufficient_payment",
                    ret.payment_date) = {} )
       => /\ ret.raised = "none"
          /\ ret.value.penalty_amount = 0
          /\ \A in_full \in calculate_insufficient_payment_penalty(
                               penaltyRules, ret.stokvel, ret.expected_amount,
                               ret.expected_amount, ret.payment_date) :
                ret.value # in_full.value

\* C28: calculate_insufficient_payment_penalty returns (0, None) when
\* paid_amount >= expected_amount; otherwise it applies the 'insufficient_payment'
\* rule in force on the payment date with days_late = 0, so with a rule whose
\* grace_period_days >= 0 the penalty is 0 whatever the shortage, the method
\* and the rule's amount.
C28_ShortPenaltyIsZeroWithinGrace ==
    ret.op = "calculate_insufficient_payment_penalty" =>
        IF ret.paid_amount >= ret.expected_amount
        THEN ret.raised = "none" /\ ret.value = PenaltyTuple(0, NULL)
        ELSE /\ ret.raised = "none"
             /\ LET in_force == InForce(penaltyRules, ret.stokvel, "insufficient_payment",
                                        ret.payment_date)
                IN IF in_force = {} THEN ret.value = PenaltyTuple(0, NULL)
                   ELSE /\ ret.value.penalty_rule \in in_force
                        /\ penaltyRules[ret.value.penalty_rule].grace_period_days >= 0
                             => ret.value.penalty_amount = 0

\* The rate h (hundredths of a percent) is exactly num / den * 100.
RateIs(h, num, den) == h * den = num * 10000

\* The rate h is num / den * 100 to the nearest hundredth.
RateRounds(h, num, den) ==
    /\ 2 * (h * den - num * 10000) <= den
    /\ 2 * (num * 10000 - h * den) <= den

\* C25 as stated: no report aggregate raises; collection_rate is 0 when
\* total_expected is 0 and total_received / total_expected * 100 otherwise;
\* compliance_rate is 0 without periods and paid_periods / total_periods * 100
\* otherwise, between 0 and 100; avg_compliance_rate is 0 without active members.
C25_RatesAreExactRatios ==
    /\ (util.fn = "calculate_contribution_statistics" /\ util.called) =>
          /\ util.result.raised = "none"
          /\ LET v == util.result.value
             IN IF v.total_expected = 0 THEN v.collection_rate = 0
                ELSE RateIs(v.collection_rate, v.total_received, v.total_expected)
    /\ (util.fn = "get_payment_compliance_report" /\ util.called) =>
          /\ util.result.raised = "none"
          /\ LET v == util.result.value
             IN /\ \A m \in DOMAIN v.members_data :
                     LET d == v.members_data[m]
                     IN /\ d.compliance_rate \in 0..10000
                        /\ IF d.total_periods = 0 THEN d.compliance_rate = 0
                           ELSE RateIs(d.compliance_rate, d.paid_periods, d.total_periods)
                /\ DOMAIN v.members_data = {} => v.summary.avg_compliance_rate = 0

\* C25, with the rounding of the code: the rates are the named ratios rounded
\* to two decimals.
C25_RatesAreRoundedRatios ==
    /\ (util.fn = "calculate_contribution_statistics" /\ util.called) =>
          /\ util.result.raised = "none"
          /\ LET v == util.result.value
             IN /\ v.total_expected =
                     sum_total_expected_amount(util.periods, util.members)
                /\ v.total_received = sum_total_received_amount(util.periods)
                /\ IF v.total_expected = 0 THEN v.collection_rate = 0
                   ELSE RateRounds(v.collection_rate, v.total_received, v.total_expected)
    /\ (util.fn = "get_payment_compliance_report" /\ util.called) =>
          /\ util.result.raised = "none"
          /\ LET v == util.result.value
             IN /\ DOMAIN v.members_data =
                     { m \in Members : util.statuses[m] = "active" }
                /\ \A m \in DOMAIN v.members_data :
                     LET d == v.members_data[m]
                     IN /\ d.total_periods = util.total_periods
                        /\ d.paid_periods =
                             Cardinality({ p \in 1..util.total_periods :
                                             util.grid[m][p] = "verified" })
                        /\ d.compliance_rate \in 0..10000
                        /\ IF d.total_periods = 0 THEN d.compliance_rate = 0
                           ELSE RateRounds(d.compliance_rate, d.paid_periods,
                                           d.total_periods)
                /\ DOMAIN v.members_data = {} => v.summary.avg_compliance_rate = 0

\* A report for a member who paid 2 of 3 periods (66.67), and statistics with
\* nothing expected.
C25_Witness ==
    /\ util.called
    /\ util.fn = "get_payment_compliance_report"
    /\ \E m \in DOMAIN util.result.value.members_data :
         /\ util.result.value.members_data[m].total_periods = 3
         /\ util.result.value.members_data[m].paid_periods = 2
         /\ util.result.value.members_data[m].compliance_rate = 6667

PrimaryIn(rows, stokvel) ==
    { i \in DOMAIN rows : rows[i].stokvel = stokvel /\ rows[i].is_primary }

PrimaryAccounts(stokvel) == PrimaryIn(accounts, stokvel)

\* C26: in every reachable state, the intermediate states of interleaved
\* calls included, a stokvel has at most one StokvelBankAccount with
\* is_primary = true, under add_bank_account, set_primary_account,
\* deactivate_account and StokvelBankAccount.save.
C26_AtMostOnePrimaryAccount ==
    \A s \in Stokvels : Cardinality(PrimaryAccounts(s)) <= 1

\* C29: when deactivate_account on the primary account returns, the account
\* has is_active = false and is_primary = false; if the stokvel had another
\* active account, exactly one other active account is primary; if not, none
\* is.
C29_DeactivationPromotesAnother ==
    [][\A r \in OneRequest :
          ( /\ txn[r].pc = "deactivate"
            /\ txn'[r].pc = "done"
            /\ txn[r].account.is_primary )
          => LET pk == txn[r].account.pk
                 primary == PrimaryIn(accounts', txn[r].account.stokvel)
             IN /\ ~accounts'[pk].is_active
                /\ ~accounts'[pk].is_primary
                /\ IF txn[r].others # {}
                   THEN /\ Cardinality(primary) = 1
                        /\ primary \subseteq txn[r].others
                        /\ \A i \in primary : accounts'[i].is_active
                   ELSE primary = {}]_vars

\* C27: in every reachable state a stokvel has at most one StokvelCycle with
\* status 'active', for activate_cycle calls that follow one another and for
\* two calls on different cycles of the stokvel that interleave.
C27_AtMostOneActiveCycle ==
    \A s \in Stokvels :
        Cardinality({ i \in DOMAIN cycles :
                        cycles[i].stokvel = s /\ cycles[i].status = "active" }) <= 1

====
